---- MODULE Spec2Model ----
(***************************************************************************)
(* A model of the johnnydecimal index: the JdNumber value object           *)
(* (src/src/jdnumber/mod.rs) and the System that keeps an ordered,         *)
(* duplicate-free Vec<JdNumber> (src/src/system/mod.rs).                   *)
(*                                                                         *)
(* Strings are sequences of one-character strings, Option<T> is a sequence *)
(* of length at most one, a PathBuf is the sequence of its components.     *)
(***************************************************************************)
EXTENDS Integers, Sequences, FiniteSets, TLC

VARIABLES
    path,   \* System.path: the root path of the system
    id,     \* System.id: the Vec<JdNumber>
    op,     \* the operation that ran last
    arg,    \* its arguments
    ret,    \* what it returned
    old,    \* the System as it was when the operation was called
    added   \* the set of identifiers inserted so far

vars == <<path, id, op, arg, ret, old, added>>

-----------------------------------------------------------------------------
(* Bounds of the model.                                                    *)

\* The largest number of identifiers the index grows to.
MaxLen == 3

-----------------------------------------------------------------------------
(* Option<T>, strings and numbers.                                         *)

None == <<>>

Some(x) == <<x>>

is_some(o) == Len(o) = 1

is_none(o) == Len(o) = 0

unwrap(o) == o[1]

\* The results of the operations: ok, an error string, or a panic.
Ok(v) == [kind |-> "ok", err |-> "", val |-> v]

Err(e) == [kind |-> "err", err |-> e, val |-> <<>>]

Panic == [kind |-> "panic", err |-> "", val |-> <<>>]

DigitChars == <<"0", "1", "2", "3", "4", "5", "6", "7", "8", "9">>

IsDigit(c) == \E d \in 1..10 : DigitChars[d] = c

DigitVal(c) == (CHOOSE d \in 1..10 : DigitChars[d] = c) - 1

\* u32::to_string: the decimal digits of n, no padding.
RECURSIVE to_string(_)
to_string(n) ==
    IF n < 10 THEN <<DigitChars[n + 1]>>
    ELSE to_string(n \div 10) \o <<DigitChars[(n % 10) + 1]>>

\* The format spec {:0>w}: right-aligned, filled with '0' up to width w,
\* never truncated.
RECURSIVE PadZero(_, _)
PadZero(s, w) == IF Len(s) >= w THEN s ELSE PadZero(<<"0">> \o s, w)

\* str::parse::<u32> of a string of ASCII digits.
RECURSIVE parse_u32(_)
parse_u32(s) ==
    IF Len(s) = 0 THEN 0
    ELSE 10 * parse_u32(SubSeq(s, 1, Len(s) - 1)) + DigitVal(s[Len(s)])

AllDigits(s) == \A i \in 1..Len(s) : IsDigit(s[i])

-----------------------------------------------------------------------------
(* JdNumber.                                                               *)

\* new with the id checked against 100 instead of 99.
new_id_100(area_label, category_label, category, jid, project, project_label, project_area_label, label, p) ==
    IF category > 99 \/ jid > 100
    THEN [ok |-> FALSE, val |-> <<>>]
    ELSE IF is_some(project) /\ unwrap(project) > 999
    THEN [ok |-> FALSE, val |-> <<>>]
    ELSE [ok |-> TRUE,
          val |-> <<[category |-> category,
                     id |-> jid,
                     project |-> project,
                     project_label |-> project_label,
                     project_area_label |-> project_area_label,
                     label |-> label,
                     area_label |-> area_label,
                     category_label |-> category_label,
                     path |-> p]>>]

\* new with the project checked against 1000 instead of 999.
new_project_1000(area_label, category_label, category, jid, project, project_label, project_area_label, label, p) ==
    IF category > 99 \/ jid > 99
    THEN [ok |-> FALSE, val |-> <<>>]
    ELSE IF is_some(project) /\ unwrap(project) > 1000
    THEN [ok |-> FALSE, val |-> <<>>]
    ELSE [ok |-> TRUE,
          val |-> <<[category |-> category,
                     id |-> jid,
                     project |-> project,
                     project_label |-> project_label,
                     project_area_label |-> project_area_label,
                     label |-> label,
                     area_label |-> area_label,
                     category_label |-> category_label,
                     path |-> p]>>]

\* JdNumber::new: the range checks, then the fields verbatim.  The callers
\* in system/mod.rs pass nine arguments, a project_area_label after the
\* project_label; the field is kept as they pass it.
new(area_label, category_label, category, jid, project, project_label, project_area_label, label, p) ==
    IF category > 99 \/ jid > 99
    THEN [ok |-> FALSE, val |-> <<>>]
    ELSE IF is_some(project) /\ unwrap(project) > 999
    THEN [ok |-> FALSE, val |-> <<>>]
    ELSE [ok |-> TRUE,
          val |-> <<[category |-> category,
                     id |-> jid,
                     project |-> project,
                     project_label |-> project_label,
                     project_area_label |-> project_area_label,
                     label |-> label,
                     area_label |-> area_label,
                     category_label |-> category_label,
                     path |-> p]>>]

\* JdNumber::get_area: "{area}0-{area}9{area_label}", area being the first
\* character of the category's decimal string.
get_area(jd) ==
    LET area == to_string(jd.category)[1]
    IN  <<area, "0", "-", area, "9">> \o jd.area_label

\* JdNumber::get_relative_path
get_relative_path(jd) ==
    LET proj == IF is_some(jd.project) /\ is_some(jd.project_label)
                THEN <<PadZero(to_string(unwrap(jd.project)), 3)
                         \o unwrap(jd.project_label)>>
                ELSE <<>>
        cat == PadZero(to_string(jd.category), 2) \o jd.category_label
        item == IF is_none(jd.project)
                THEN PadZero(to_string(jd.category), 2) \o <<".">>
                       \o PadZero(to_string(jd.id), 2) \o jd.label
                ELSE PadZero(to_string(unwrap(jd.project)), 3) \o <<".">>
                       \o PadZero(to_string(jd.category), 2) \o <<".">>
                       \o PadZero(to_string(jd.id), 2) \o jd.label
    IN  proj \o <<get_area(jd), cat, item>>

\* impl Display for JdNumber: the short dotted form.
jd_to_string(jd) ==
    IF is_some(jd.project)
    THEN PadZero(to_string(unwrap(jd.project)), 3) \o <<".">>
           \o PadZero(to_string(jd.category), 2) \o <<".">>
           \o PadZero(to_string(jd.id), 2) \o jd.label
    ELSE PadZero(to_string(jd.category), 2) \o <<".">>
           \o PadZero(to_string(jd.id), 2) \o jd.label

\* Ord with the absent project above every present one.
cmp_none_greater(self, other) ==
    IF is_some(self.project) /\ is_some(other.project)
         /\ unwrap(self.project) > unwrap(other.project) THEN "Greater"
    ELSE IF is_some(self.project) /\ is_some(other.project)
         /\ unwrap(self.project) < unwrap(other.project) THEN "Less"
    ELSE IF is_some(self.project) /\ is_none(other.project) THEN "Less"
    ELSE IF is_none(self.project) /\ is_some(other.project) THEN "Greater"
    ELSE IF self.category > other.category THEN "Greater"
    ELSE IF self.category < other.category THEN "Less"
    ELSE IF self.id > other.id THEN "Greater"
    ELSE IF self.id < other.id THEN "Less"
    ELSE "Equal"

\* impl Ord for JdNumber
cmp(self, other) ==
    IF is_some(self.project) /\ is_some(other.project)
         /\ unwrap(self.project) > unwrap(other.project) THEN "Greater"
    ELSE IF is_some(self.project) /\ is_some(other.project)
         /\ unwrap(self.project) < unwrap(other.project) THEN "Less"
    ELSE IF is_some(self.project) /\ is_none(other.project) THEN "Greater"
    ELSE IF is_none(self.project) /\ is_some(other.project) THEN "Less"
    ELSE IF self.category > other.category THEN "Greater"
    ELSE IF self.category < other.category THEN "Less"
    ELSE IF self.id > other.id THEN "Greater"
    ELSE IF self.id < other.id THEN "Less"
    ELSE "Equal"

\* impl PartialEq for JdNumber
eq(self, other) ==
    /\ self.project = other.project
    /\ self.category = other.category
    /\ self.id = other.id

\* impl PartialOrd for JdNumber
partial_cmp(self, other) ==
    IF is_some(self.project) /\ is_some(other.project)
         /\ unwrap(self.project) > unwrap(other.project) THEN Some("Greater")
    ELSE IF is_some(self.project) /\ is_some(other.project)
         /\ unwrap(self.project) < unwrap(other.project) THEN Some("Less")
    ELSE IF is_some(self.project) /\ is_none(other.project) THEN Some("Greater")
    ELSE IF is_none(self.project) /\ is_some(other.project) THEN Some("Less")
    ELSE IF self.category > other.category THEN Some("Greater")
    ELSE IF self.category < other.category THEN Some("Less")
    ELSE IF self.id > other.id THEN Some("Greater")
    ELSE IF self.id < other.id THEN Some("Less")
    ELSE Some("Equal")

-----------------------------------------------------------------------------
(* System: the partial-number parser.                                      *)

\* What the common regex prefix ^(\d\d\d)?\.? can consume of s, in the
\* order the regex engine prefers: [project capture, characters consumed].
RegexPrefixes(s) ==
    LET three == Len(s) >= 3 /\ AllDigits(SubSeq(s, 1, 3))
        pro == Some(parse_u32(SubSeq(s, 1, 3)))
    IN  (IF three /\ Len(s) >= 4 /\ s[4] = "."
         THEN <<[project |-> pro, used |-> 4]>> ELSE <<>>)
        \o (IF three THEN <<[project |-> pro, used |-> 3]>> ELSE <<>>)
        \o (IF Len(s) >= 1 /\ s[1] = "."
            THEN <<[project |-> None, used |-> 1]>> ELSE <<>>)
        \o <<[project |-> None, used |-> 0]>>

\* The rest of s after n characters.
Rest(s, n) == SubSeq(s, n + 1, Len(s))

IsTwoDigits(s) == Len(s) = 2 /\ AllDigits(s)

\* cat_ex = ^(\d\d\d)?\.?(\d\d)$ : Some([project, category]) or None.
cat_ex(s) ==
    LET ok == SelectSeq(RegexPrefixes(s),
                        LAMBDA c : IsTwoDigits(Rest(s, c.used)))
    IN  IF Len(ok) = 0 THEN None
        ELSE Some([project |-> ok[1].project,
                   category |-> Some(parse_u32(Rest(s, ok[1].used)))])

\* project_ex = ^(\d\d\d)$ : Some([project]) or None.
project_ex(s) ==
    IF Len(s) = 3 /\ AllDigits(s)
    THEN Some([project |-> Some(parse_u32(s))])
    ELSE None

\* The tail (\d\d)\.(\d\d)$ of jd_ex.
IsCatDotId(s) ==
    /\ Len(s) = 5
    /\ AllDigits(SubSeq(s, 1, 2))
    /\ s[3] = "."
    /\ AllDigits(SubSeq(s, 4, 5))

\* jd_ex = ^(\d\d\d)?\.?(\d\d)\.(\d\d)$ : Some([project, category, id]) or None.
jd_ex(s) ==
    LET ok == SelectSeq(RegexPrefixes(s),
                        LAMBDA c : IsCatDotId(Rest(s, c.used)))
    IN  IF Len(ok) = 0 THEN None
        ELSE LET r == Rest(s, ok[1].used)
             IN  Some([project |-> ok[1].project,
                       category |-> Some(parse_u32(SubSeq(r, 1, 2))),
                       id |-> Some(parse_u32(SubSeq(r, 4, 5)))])

\* System::parse_jd_input, given what the three regexes captured: each
\* match in turn overwrites the variables it captures.
parse_jd_input_captures(c, p, j) ==
    [project |-> IF is_some(j) THEN unwrap(j).project
                 ELSE IF is_some(p) THEN unwrap(p).project
                 ELSE IF is_some(c) THEN unwrap(c).project
                 ELSE None,
     category |-> IF is_some(j) THEN unwrap(j).category
                  ELSE IF is_some(c) THEN unwrap(c).category
                  ELSE None,
     id |-> IF is_some(j) THEN unwrap(j).id ELSE None]

\* System::parse_jd_input
parse_jd_input(input) ==
    parse_jd_input_captures(cat_ex(input), project_ex(input), jd_ex(input))

-----------------------------------------------------------------------------
(* JdNumber from a typed string and from a path.                           *)

\* ex = ^(\d\d\d)?\.?(\d\d)\.(\d\d)$ of TryFrom<String>:
\* Some([project, category, id]) or None.
try_from_string_ex(s) ==
    LET ok == SelectSeq(RegexPrefixes(s),
                        LAMBDA c : IsCatDotId(Rest(s, c.used)))
    IN  IF Len(ok) = 0 THEN None
        ELSE LET r == Rest(s, ok[1].used)
             IN  Some([project |-> ok[1].project,
                       category |-> parse_u32(SubSeq(r, 1, 2)),
                       id |-> parse_u32(SubSeq(r, 4, 5))])

\* TryFrom<String> for JdNumber, given what the regex captured.
try_from_string_captures(caps) ==
    IF is_none(caps) THEN Err("Regex did not match")
    ELSE LET r == new(<<>>, <<>>, unwrap(caps).category, unwrap(caps).id,
                      unwrap(caps).project, None, None,
                      <<"l", "a", "b", "e", "l">>, <<>>)
         IN  IF r.ok THEN Ok(r.val) ELSE Err("Could not create JD")

\* TryFrom<String> for JdNumber
try_from_string(value) == try_from_string_captures(try_from_string_ex(value))

\* .* : any characters but a line break.
IsDotStar(s) == \A k \in 1..Len(s) : s[k] # "\n"

\* \D : one character that is no digit.
IsNonDigit(c) == ~IsDigit(c)

\* [^0-9.] : one character that is neither a digit nor a dot.
IsLabelStart(c) == ~IsDigit(c) /\ c # "."

\* project_area_ex = ^(\d\d\d)-(\d\d\d)(\D.*)$ : Some([first, second, name])
\* or None.
path_project_area_ex(s) ==
    IF /\ Len(s) >= 8
       /\ AllDigits(SubSeq(s, 1, 3))
       /\ s[4] = "-"
       /\ AllDigits(SubSeq(s, 5, 7))
       /\ IsNonDigit(s[8])
       /\ IsDotStar(Rest(s, 8))
    THEN Some([first |-> SubSeq(s, 1, 3), second |-> SubSeq(s, 5, 7),
               name |-> Rest(s, 7)])
    ELSE None

\* project_ex = ^(\d\d\d)([^0-9.].*)$ of TryFrom<PathBuf>:
\* Some([project, name]) or None.
path_project_ex(s) ==
    IF /\ Len(s) >= 4
       /\ AllDigits(SubSeq(s, 1, 3))
       /\ IsLabelStart(s[4])
       /\ IsDotStar(Rest(s, 4))
    THEN Some([project |-> parse_u32(SubSeq(s, 1, 3)), name |-> Rest(s, 3)])
    ELSE None

\* area_ex = ^(\d\d)-(\d\d)(\D.*)$ : Some([first, second, name]) or None.
path_area_ex(s) ==
    IF /\ Len(s) >= 6
       /\ AllDigits(SubSeq(s, 1, 2))
       /\ s[3] = "-"
       /\ AllDigits(SubSeq(s, 4, 5))
       /\ IsNonDigit(s[6])
       /\ IsDotStar(Rest(s, 6))
    THEN Some([first |-> parse_u32(SubSeq(s, 1, 2)),
               second |-> parse_u32(SubSeq(s, 4, 5)),
               name |-> Rest(s, 5)])
    ELSE None

\* category_ex = ^(\d\d)([^0-9.].*)$ : Some([category, name]) or None.
path_category_ex(s) ==
    IF /\ Len(s) >= 3
       /\ AllDigits(SubSeq(s, 1, 2))
       /\ IsLabelStart(s[3])
       /\ IsDotStar(Rest(s, 3))
    THEN Some([category |-> parse_u32(SubSeq(s, 1, 2)), name |-> Rest(s, 2)])
    ELSE None

\* The offsets at which a line of s starts: 0 and behind every line break.
LineStarts(s) ==
    <<0>> \o SelectSeq([k \in 1..Len(s) |-> k], LAMBDA k : s[k] = "\n")

\* s up to its first line break.
UpToLineEnd(s) ==
    IF \A k \in 1..Len(s) : s[k] # "\n" THEN s
    ELSE SubSeq(s, 1, (CHOOSE k \in 1..Len(s) :
                          /\ s[k] = "\n"
                          /\ \A m \in 1..(k - 1) : s[m] # "\n") - 1)

\* The tail (\d\d)\.(\d\d)(\D.*)$ of the jd_ex of TryFrom<PathBuf>; under
\* (?m) the $ is met at the end of the line, wherever .* stops.
IsCatDotIdName(s) ==
    /\ Len(s) >= 6
    /\ AllDigits(SubSeq(s, 1, 2))
    /\ s[3] = "."
    /\ AllDigits(SubSeq(s, 4, 5))
    /\ IsNonDigit(s[6])

\* jd_ex matched at the start of the line r.
path_jd_ex_at(r) ==
    LET ok == SelectSeq(RegexPrefixes(r),
                        LAMBDA c : IsCatDotIdName(Rest(r, c.used)))
    IN  IF Len(ok) = 0 THEN None
        ELSE LET t == Rest(r, ok[1].used)
             IN  Some([project |-> ok[1].project,
                       category |-> parse_u32(SubSeq(t, 1, 2)),
                       id |-> parse_u32(SubSeq(t, 4, 5)),
                       name |-> <<t[6]>> \o UpToLineEnd(Rest(t, 6))])

\* jd_ex = (?m)^(\d\d\d)?\.?(\d\d)\.(\d\d)(\D.*)$ : the match at the first
\* line start that has one, Some([project, category, id, name]) or None.
path_jd_ex(s) ==
    LET hits == SelectSeq(LineStarts(s),
                          LAMBDA o : is_some(path_jd_ex_at(Rest(s, o))))
    IN  IF Len(hits) = 0 THEN None
        ELSE path_jd_ex_at(Rest(s, hits[1]))

\* The variables of TryFrom<PathBuf> before the loop: nothing captured.
NoCaptures ==
    [project_area |-> None, project_area_name |-> None,
     project_name |-> None, project |-> None,
     area_name |-> None, area |-> None,
     category |-> None, category_name |-> None,
     jd_project |-> None, jd_category |-> None, jd_id |-> None,
     jd_name |-> None]

\* One pass of the loop of TryFrom<PathBuf>: each of the five regexes that
\* matches the component overwrites its variables.
try_from_path_component(v, pa, p, a, c, j) ==
    [project_area |-> IF is_some(pa)
                      THEN Some(<<unwrap(pa).first, unwrap(pa).second>>)
                      ELSE v.project_area,
     project_area_name |-> IF is_some(pa) THEN Some(unwrap(pa).name)
                           ELSE v.project_area_name,
     project_name |-> IF is_some(p) THEN Some(unwrap(p).name)
                      ELSE v.project_name,
     project |-> IF is_some(p) THEN Some(unwrap(p).project) ELSE v.project,
     area |-> IF is_some(a) THEN Some(<<unwrap(a).first, unwrap(a).second>>)
              ELSE v.area,
     area_name |-> IF is_some(a) THEN Some(unwrap(a).name) ELSE v.area_name,
     category |-> IF is_some(c) THEN Some(unwrap(c).category) ELSE v.category,
     category_name |-> IF is_some(c) THEN Some(unwrap(c).name)
                       ELSE v.category_name,
     jd_project |-> IF is_some(j) THEN unwrap(j).project ELSE v.jd_project,
     jd_category |-> IF is_some(j) THEN Some(unwrap(j).category)
                     ELSE v.jd_category,
     jd_id |-> IF is_some(j) THEN Some(unwrap(j).id) ELSE v.jd_id,
     jd_name |-> IF is_some(j) THEN Some(unwrap(j).name) ELSE v.jd_name]

\* The loop of TryFrom<PathBuf> over the components, first to last.
RECURSIVE try_from_path_loop(_, _)
try_from_path_loop(components, v) ==
    IF Len(components) = 0 THEN v
    ELSE try_from_path_loop(
             Tail(components),
             try_from_path_component(v,
                 path_project_area_ex(Head(components)),
                 path_project_ex(Head(components)),
                 path_area_ex(Head(components)),
                 path_category_ex(Head(components)),
                 path_jd_ex(Head(components))))

\* The call of JdNumber::new that ends TryFrom<PathBuf>.
try_from_path_new(v, path_value) ==
    LET r == new(unwrap(v.area_name), unwrap(v.category_name),
                 unwrap(v.category), unwrap(v.jd_id), v.project,
                 v.project_name, None, unwrap(v.jd_name), path_value)
    IN  IF r.ok THEN Ok(r.val) ELSE Err("Could not create JD number")

\* TryFrom<PathBuf> after the loop: the checks in the order of the code.
try_from_path_checks_first_only(v, path_value) ==
    IF v.project # v.jd_project THEN Err("")
    ELSE IF v.category # v.jd_category THEN Err("")
    ELSE IF is_none(v.area) THEN Err("")
    ELSE IF unwrap(v.area)[1] % 10 # 0
    THEN Err("First area number is not a multiple of 10.")
    ELSE IF is_none(v.area_name) THEN Err("Could not find area name")
    ELSE IF is_none(v.category_name) THEN Err("Could not find category name")
    ELSE IF is_none(v.category) THEN Err("Could not find category")
    ELSE IF is_none(v.jd_id) THEN Err("Could not find id")
    ELSE IF is_none(v.jd_name) THEN Err("Could not find JD name")
    ELSE try_from_path_new(v, path_value)

try_from_path_checks(v, path_value) ==
    IF v.project # v.jd_project THEN Err("")
    ELSE IF v.category # v.jd_category THEN Err("")
    ELSE IF is_none(v.area) THEN Err("")
    ELSE IF unwrap(v.area)[1] % 10 # 0
    THEN Err("First area number is not a multiple of 10.")
    ELSE IF unwrap(v.area)[2] # unwrap(v.area)[1] + 9
    THEN Err("Second area number is not 9 more than the first number.")
    ELSE IF is_none(v.area_name) THEN Err("Could not find area name")
    ELSE IF is_none(v.category_name) THEN Err("Could not find category name")
    ELSE IF is_none(v.category) THEN Err("Could not find category")
    ELSE IF is_none(v.jd_id) THEN Err("Could not find id")
    ELSE IF is_none(v.jd_name) THEN Err("Could not find JD name")
    ELSE try_from_path_new(v, path_value)

\* TryFrom<PathBuf> for JdNumber
try_from_path(path_value) ==
    try_from_path_checks(try_from_path_loop(path_value, NoCaptures), path_value)

-----------------------------------------------------------------------------
(* System: the operations on the index.                                    *)

\* slice::binary_search under Ord for JdNumber; pos counts from 0.
RECURSIVE binary_search_by(_, _, _, _)
binary_search_by(s, x, left, right) ==
    IF left >= right THEN [found |-> FALSE, pos |-> left]
    ELSE LET mid == left + ((right - left) \div 2)
             c == cmp(s[mid + 1], x)
         IN  IF c = "Less" THEN binary_search_by(s, x, mid + 1, right)
             ELSE IF c = "Greater" THEN binary_search_by(s, x, left, mid)
             ELSE [found |-> TRUE, pos |-> mid]

binary_search(s, x) == binary_search_by(s, x, 0, Len(s))

\* insert that puts x in front, whatever pos is.
insert_front(s, pos, x) == <<x>> \o s

\* Vec::insert(pos, x), pos counting from 0.
insert(s, pos, x) == SubSeq(s, 1, pos) \o <<x>> \o SubSeq(s, pos + 1, Len(s))

\* add_id that pushes at the end instead of inserting at the position found.
add_id_append(ids, x) ==
    LET r == binary_search(ids, x)
    IN  IF r.found
        THEN [ret |-> Err("Element already exists."), id |-> ids]
        ELSE [ret |-> Ok(<<>>), id |-> Append(ids, x)]

\* add_id that takes for a duplicate only an entry equal in every field.
add_id_all_fields(ids, x) ==
    LET r == binary_search(ids, x)
    IN  IF r.found /\ ids[r.pos + 1] = x
        THEN [ret |-> Err("Element already exists."), id |-> ids]
        ELSE [ret |-> Ok(<<>>), id |-> insert(ids, r.pos, x)]

\* add_id that overwrites the stored entry before it reports the duplicate.
add_id_overwrite(ids, x) ==
    LET r == binary_search(ids, x)
    IN  IF r.found
        THEN [ret |-> Err("Element already exists."),
              id |-> [ids EXCEPT ![r.pos + 1] = x]]
        ELSE [ret |-> Ok(<<>>), id |-> insert(ids, r.pos, x)]

\* System::add_id: the result and the Vec afterwards.
add_id(ids, x) ==
    LET r == binary_search(ids, x)
    IN  IF r.found
        THEN [ret |-> Err("Element already exists."), id |-> ids]
        ELSE [ret |-> Ok(<<>>), id |-> insert(ids, r.pos, x)]

\* filter_id that does not compare the project.
filter_id_any_project(ids, project, category, jid) ==
    SelectSeq(ids, LAMBDA i :
        /\ (is_some(category) => unwrap(category) = i.category)
        /\ (is_some(jid) => unwrap(jid) = i.id))

\* System::filter_id
filter_id(ids, project, category, jid) ==
    SelectSeq(ids, LAMBDA i :
        /\ i.project = project
        /\ (is_some(category) => unwrap(category) = i.category)
        /\ (is_some(jid) => unwrap(jid) = i.id))

\* Vec::sort under Ord for JdNumber (stable).
RECURSIVE sort(_)
sort(s) ==
    IF Len(s) <= 1 THEN s
    ELSE LET front == sort(SubSeq(s, 1, Len(s) - 1))
             x == s[Len(s)]
             k == Cardinality({i \in 1..Len(front) :
                                 cmp(front[i], x) # "Greater"})
         IN  insert(front, k, x)

\* System::add_id_from_str, its last step: the path of the new identifier
\* is the root joined with its relative path, then add_id.
add_id_from_str_insert(root, ids, jd) ==
    add_id(ids, [jd EXCEPT !.path = root \o get_relative_path(jd)])

\* System::add_id_from_str from the highest identifier of the bucket on:
\* the new identifier is built with its labels and the next id.
add_id_from_str_next(root, ids, number, title) ==
    LET made == new(number.area_label, number.category_label,
                    number.category, number.id + 1, number.project,
                    number.project_label, number.project_area_label,
                    title, <<>>)
    IN  IF ~made.ok
        THEN [ret |-> Err("Could not create JD number."), id |-> ids]
        ELSE add_id_from_str_insert(root, ids, unwrap(made.val))

\* add_id_from_str that takes the first identifier of the bucket, not the
\* last.
add_id_from_str_first(root, ids, numbers, title) ==
    IF Len(numbers) = 0
    THEN [ret |-> Panic, id |-> ids]
    ELSE add_id_from_str_next(root, ids, numbers[1], title)

\* System::add_id_from_str from the sorted bucket on: indexing an empty
\* Vec at len() - 1 panics.
add_id_from_str_last(root, ids, numbers, title) ==
    IF Len(numbers) = 0
    THEN [ret |-> Panic, id |-> ids]
    ELSE add_id_from_str_next(root, ids, numbers[Len(numbers)], title)

\* System::add_id_from_str from the parsed partial number on.
add_id_from_str_parsed(root, ids, parsed, title) ==
    IF is_none(parsed.category)
    THEN [ret |-> Err("Could not find category."), id |-> ids]
    ELSE add_id_from_str_last(root, ids,
             sort(filter_id(ids, parsed.project, parsed.category, None)),
             title)

\* System::add_id_from_str: the result and the Vec afterwards.
add_id_from_str(root, ids, jd, title) ==
    add_id_from_str_parsed(root, ids, parse_jd_input(jd), title)

\* get_id that hands back the key it was given.
get_id_key(ids, key) ==
    LET r == binary_search(ids, key)
    IN  IF r.found THEN Ok(<<key>>)
        ELSE Err("Could not find JD")

\* System::get_id
get_id(ids, key) ==
    LET r == binary_search(ids, key)
    IN  IF r.found THEN Ok(<<ids[r.pos + 1]>>)
        ELSE Err("Could not find JD")

\* The rendering loop of System::display over the selected identifiers,
\* carrying the output and the three "previous label" strings.
RECURSIVE display_loop(_, _, _, _, _)
display_loop_category_by_area(jd_list, output, area_string, category_string, project_string) ==
    IF Len(jd_list) = 0 THEN Ok(output)
    ELSE LET i == Head(jd_list)
             project_changed == i.project_label # project_string
             out1 == IF project_changed
                     THEN output \o to_string(unwrap(i.project))
                            \o (IF is_some(i.project_label)
                                THEN unwrap(i.project_label) ELSE <<>>)
                            \o <<"\n">>
                     ELSE output
             out2 == IF i.area_label # area_string
                     THEN out1 \o <<" ", " ">> \o get_area(i) \o <<"\n">>
                     ELSE out1
             out3 == IF i.area_label # area_string
                     THEN out2 \o <<" ", " ", " ", " ">>
                            \o to_string(i.category) \o i.category_label
                            \o <<"\n">>
                     ELSE out2
             out4 == out3 \o <<" ", " ", " ", " ", " ", " ">>
                       \o jd_to_string(i) \o <<"\n">>
         IN  IF project_changed /\ is_none(i.project) THEN Panic
             ELSE display_loop(Tail(jd_list), out4, i.area_label,
                               i.category_label,
                               IF project_changed THEN i.project_label
                               ELSE project_string)

display_loop(jd_list, output, area_string, category_string, project_string) ==
    IF Len(jd_list) = 0 THEN Ok(output)
    ELSE LET i == Head(jd_list)
             project_changed == i.project_label # project_string
             out1 == IF project_changed
                     THEN output \o to_string(unwrap(i.project))
                            \o (IF is_some(i.project_label)
                                THEN unwrap(i.project_label) ELSE <<>>)
                            \o <<"\n">>
                     ELSE output
             out2 == IF i.area_label # area_string
                     THEN out1 \o <<" ", " ">> \o get_area(i) \o <<"\n">>
                     ELSE out1
             out3 == IF i.category_label # category_string
                     THEN out2 \o <<" ", " ", " ", " ">>
                            \o to_string(i.category) \o i.category_label
                            \o <<"\n">>
                     ELSE out2
             out4 == out3 \o <<" ", " ", " ", " ", " ", " ">>
                       \o jd_to_string(i) \o <<"\n">>
         IN  IF project_changed /\ is_none(i.project) THEN Panic
             ELSE display_loop(Tail(jd_list), out4, i.area_label,
                               i.category_label,
                               IF project_changed THEN i.project_label
                               ELSE project_string)

\* display_select with an exact number that is not in the index selecting
\* nothing instead of failing.
display_select_no_error(ids, parsed) ==
    IF is_some(parsed.id) /\ is_some(parsed.category)
    THEN LET to_find == unwrap(new(<<>>, <<>>, unwrap(parsed.category),
                                   unwrap(parsed.id), parsed.project,
                                   None, None, <<>>, <<>>).val)
             r == binary_search(ids, to_find)
         IN  IF r.found THEN Ok(<<ids[r.pos + 1]>>)
             ELSE Ok(<<>>)
    ELSE IF is_some(parsed.category)
    THEN Ok(SelectSeq(ids, LAMBDA item :
                /\ item.category = unwrap(parsed.category)
                /\ item.project = parsed.project))
    ELSE IF is_some(parsed.project)
    THEN Ok(SelectSeq(ids, LAMBDA item : item.project = parsed.project))
    ELSE Ok(ids)

\* display_select with the category filter taking the entries of every
\* project.
display_select_any_project(ids, parsed) ==
    IF is_some(parsed.id) /\ is_some(parsed.category)
    THEN LET to_find == unwrap(new(<<>>, <<>>, unwrap(parsed.category),
                                   unwrap(parsed.id), parsed.project,
                                   None, None, <<>>, <<>>).val)
             r == binary_search(ids, to_find)
         IN  IF r.found THEN Ok(<<ids[r.pos + 1]>>)
             ELSE Err("Cannot find JD number.")
    ELSE IF is_some(parsed.category)
    THEN Ok(SelectSeq(ids, LAMBDA item :
                item.category = unwrap(parsed.category)))
    ELSE IF is_some(parsed.project)
    THEN Ok(SelectSeq(ids, LAMBDA item : item.project = parsed.project))
    ELSE Ok(ids)

\* The identifiers System::display selects for a parsed filter, or the
\* error of the exact case.
display_select(ids, parsed) ==
    IF is_some(parsed.id) /\ is_some(parsed.category)
    THEN LET to_find == unwrap(new(<<>>, <<>>, unwrap(parsed.category),
                                   unwrap(parsed.id), parsed.project,
                                   None, None, <<>>, <<>>).val)
             r == binary_search(ids, to_find)
         IN  IF r.found THEN Ok(<<ids[r.pos + 1]>>)
             ELSE Err("Cannot find JD number.")
    ELSE IF is_some(parsed.category)
    THEN Ok(SelectSeq(ids, LAMBDA item :
                /\ item.category = unwrap(parsed.category)
                /\ item.project = parsed.project))
    ELSE IF is_some(parsed.project)
    THEN Ok(SelectSeq(ids, LAMBDA item : item.project = parsed.project))
    ELSE Ok(ids)

\* System::display
display(ids, input) ==
    LET parsed == parse_jd_input(IF is_some(input) THEN unwrap(input)
                                 ELSE <<>>)
        jd_list == display_select(ids, parsed)
    IN  IF jd_list.kind # "ok" THEN jd_list
        ELSE display_loop(jd_list.val, <<>>, <<>>, <<>>, None)

-----------------------------------------------------------------------------
(* System::parse: the grammar of a system description.  A text is the      *)
(* sequence of its lines, a line a string without line break; a parser     *)
(* returns [kind, val, rest], kind "panic" when it aborts.                 *)

ParseOk(v, r) == [kind |-> "ok", val |-> v, rest |-> r]

ParseErr == [kind |-> "err", val |-> <<>>, rest |-> <<>>]

ParsePanic == [kind |-> "panic", val |-> <<>>, rest |-> <<>>]

IsSpace(c) == c \in {" ", "\t", "\n", "\r"}

\* many0(char('<')) from index k of s on: the index of the first character
\* that is no '<'.
RECURSIVE many0_lt(_, _)
many0_lt(s, k) ==
    IF k <= Len(s) /\ s[k] = "<" THEN many0_lt(s, k + 1) ELSE k

\* count(terminated(one_of("0123456789"), many0(char('<'))), n) from index
\* k of s on: the index behind what it consumes, 0 when it fails.
RECURSIVE count_digits(_, _, _)
count_digits(s, k, n) ==
    IF n = 0 THEN k
    ELSE IF k <= Len(s) /\ IsDigit(s[k])
    THEN count_digits(s, many0_lt(s, k + 1), n - 1)
    ELSE 0

\* recognize(...) up to the index e, and the parse().unwrap() of what was
\* recognized, which aborts on a '<'.
recognize_parse(s, e) ==
    IF e = 0 THEN ParseErr
    ELSE IF \E k \in 1..(e - 1) : s[k] = "<" THEN ParsePanic
    ELSE ParseOk(parse_u32(SubSeq(s, 1, e - 1)), Rest(s, e - 1))

\* System::match_project
match_project(input) == recognize_parse(input, count_digits(input, 1, 3))

\* System::match_area
match_area(input) == recognize_parse(input, count_digits(input, 1, 2))

\* System::match_id
match_id(input) == recognize_parse(input, count_digits(input, 1, 2))

\* The second number of a separated_pair, behind the first number a.
separated_pair_second(a, b) ==
    IF b.kind # "ok" THEN b ELSE ParseOk(<<a.val, b.val>>, b.rest)

\* separated_pair(first, char('-'), second), given the result a of first
\* and the number n of digits of second.
separated_pair(a, n) ==
    IF a.kind # "ok" THEN a
    ELSE IF Len(a.rest) = 0 \/ a.rest[1] # "-" THEN ParseErr
    ELSE separated_pair_second(a, recognize_parse(Rest(a.rest, 1),
                                   count_digits(Rest(a.rest, 1), 1, n)))

\* System::match_project_range
match_project_range(input) == separated_pair(match_project(input), 3)

\* System::match_area_range
match_area_range(input) == separated_pair(match_area(input), 2)

\* multispace0 within a line: the line without its leading whitespace.
RECURSIVE trim_start(_)
trim_start(s) ==
    IF Len(s) > 0 /\ IsSpace(s[1]) THEN trim_start(Tail(s)) ELSE s

\* multispace0 on a text: the blank lines and the leading whitespace of the
\* first line that is not blank are consumed.
RECURSIVE multispace0(_)
multispace0(lines) ==
    IF Len(lines) = 0 THEN lines
    ELSE IF Len(trim_start(Head(lines))) = 0 THEN multispace0(Tail(lines))
    ELSE <<trim_start(Head(lines))>> \o Tail(lines)

\* A line made of a range r and not_line_ending; val is
\* [first, second, label].
range_line(r) ==
    IF r.kind # "ok" THEN r
    ELSE ParseOk([first |-> r.val[1], second |-> r.val[2], label |-> r.rest],
                 <<>>)

\* A line made of a number r and not_line_ending; val is [number, label].
number_line(r) ==
    IF r.kind # "ok" THEN r
    ELSE ParseOk([number |-> r.val, label |-> r.rest], <<>>)

\* System::project_area_line on a line without leading whitespace.
project_area_line(l) == range_line(match_project_range(l))

\* System::project_line
project_line(l) == number_line(match_project(l))

\* System::area_line
area_line(l) == range_line(match_area_range(l))

\* not(match_area_range) in System::category_line, n the result of
\* match_area_range, and the match_area behind it.
not_area_range(n, l) ==
    IF n.kind = "panic" THEN ParsePanic
    ELSE IF n.kind = "ok" THEN ParseErr
    ELSE number_line(match_area(l))

\* System::category_line
category_line(l) == not_area_range(match_area_range(l), l)

\* match_id and not_line_ending in System::jd_line, i the result of
\* match_id; val is [project, ac, id, label].
jd_line_id(project, ac, i) ==
    IF i.kind # "ok" THEN i
    ELSE ParseOk([project |-> project, ac |-> ac, id |-> i.val,
                  label |-> i.rest], <<>>)

\* match_area and char('.') in System::jd_line, ac the result of match_area.
jd_line_area(project, ac) ==
    IF ac.kind # "ok" THEN ac
    ELSE IF Len(ac.rest) = 0 \/ ac.rest[1] # "." THEN ParseErr
    ELSE jd_line_id(project, ac.val, match_id(Rest(ac.rest, 1)))

\* opt(char('.')) in System::jd_line
jd_line_dot(project, l) ==
    jd_line_area(project,
                 match_area(IF Len(l) > 0 /\ l[1] = "." THEN Rest(l, 1) ELSE l))

\* opt(match_project) in System::jd_line, p the result of match_project:
\* what opt has accepted is not given back when a later parser fails.
jd_line_project(p, l) ==
    IF p.kind = "panic" THEN ParsePanic
    ELSE IF p.kind = "ok" THEN jd_line_dot(Some(p.val), p.rest)
    ELSE jd_line_dot(None, l)

\* System::jd_line
jd_line(l) == jd_line_project(match_project(l), l)

\* The five kinds of line, from the outermost to the innermost.
LineKinds == <<"project_area_line", "project_line", "area_line", "category_line", "jd_line">>

\* The line parser of a kind of line.
line_parser(kind, l) ==
    CASE kind = 1 -> project_area_line(l)
      [] kind = 2 -> project_line(l)
      [] kind = 3 -> area_line(l)
      [] kind = 4 -> category_line(l)
      [] kind = 5 -> jd_line(l)

\* many0(pair(line, many0(pair(...)))) for the lines of a kind and what is
\* nested under them, many0(jd_line) for the innermost kind; val is the
\* sequence of [head, under].
RECURSIVE many0(_, _)
many0_more(head, under, more) ==
    IF more.kind = "panic" THEN ParsePanic
    ELSE ParseOk(<<[head |-> head, under |-> under]>> \o more.val, more.rest)

many0_under(kind, head, under) ==
    IF under.kind = "panic" THEN ParsePanic
    ELSE many0_more(head, under.val, many0(kind, under.rest))

many0_head(kind, r, ms, lines) ==
    IF r.kind = "panic" THEN ParsePanic
    ELSE IF r.kind = "err" THEN ParseOk(<<>>, lines)
    ELSE IF kind = Len(LineKinds)
    THEN many0_more(r.val, <<>>, many0(kind, Tail(ms)))
    ELSE many0_under(kind, r.val, many0(kind + 1, Tail(ms)))

many0_line(kind, ms, lines) ==
    IF Len(ms) = 0 THEN ParseOk(<<>>, lines)
    ELSE many0_head(kind, line_parser(kind, Head(ms)), ms, lines)

many0(kind, lines) == many0_line(kind, multispace0(lines), lines)

\* many1(p): what many0(p) finds, an error when that is nothing.
many1(r) ==
    IF r.kind = "ok" /\ Len(r.val) = 0 THEN ParseErr ELSE r

\* The loop over the items of a category in System::parse_without_projects.
RECURSIVE without_projects_ids(_, _, _, _)
without_projects_add(a, area_label, category_label, items) ==
    IF a.ret.kind # "ok" THEN Err("Could not add jd number")
    ELSE without_projects_ids(a.id, area_label, category_label, Tail(items))

without_projects_new(ids, jd, area_label, category_label, items) ==
    IF ~jd.ok THEN Err("Could not create a jd number")
    ELSE without_projects_add(add_id(ids, jd.val[1]), area_label,
                              category_label, items)

without_projects_ids(ids, area_label, category_label, items) ==
    IF Len(items) = 0 THEN Ok(ids)
    ELSE without_projects_new(ids,
             new(area_label, category_label, Head(items).head.ac,
                 Head(items).head.id, Head(items).head.project, None, None,
                 Head(items).head.label, <<>>),
             area_label, category_label, items)

\* The loop over the categories of an area in System::parse_without_projects.
RECURSIVE without_projects_categories(_, _, _)
without_projects_category(r, area, categories) ==
    IF r.kind # "ok" THEN r
    ELSE without_projects_categories(r.val, area, Tail(categories))

without_projects_categories(ids, area, categories) ==
    IF Len(categories) = 0 THEN Ok(ids)
    ELSE IF ~(area.first <= Head(categories).head.number
              /\ Head(categories).head.number <= area.second)
    THEN Err("Category not between area limits")
    ELSE without_projects_category(
             without_projects_ids(ids, area.label,
                                  Head(categories).head.label,
                                  Head(categories).under),
             area, categories)

\* The loop over the areas in System::parse_without_projects.
RECURSIVE without_projects_areas(_, _)
without_projects_area(r, areas) ==
    IF r.kind # "ok" THEN r ELSE without_projects_areas(r.val, Tail(areas))

without_projects_areas(ids, areas) ==
    IF Len(areas) = 0 THEN Ok(ids)
    ELSE IF Head(areas).head.first % 10 # 0 THEN Err("Not a multiple of 10")
    ELSE IF Head(areas).head.first + 9 # Head(areas).head.second
    THEN Err("Not a difference of 9")
    ELSE without_projects_area(
             without_projects_categories(ids, Head(areas).head,
                                         Head(areas).under),
             areas)

\* The match on what many1 returns in System::parse_without_projects.
without_projects_match(m) ==
    IF m.kind = "panic" THEN Panic
    ELSE IF m.kind = "err" THEN Err("Error parsing")
    ELSE without_projects_areas(<<>>, m.val)

\* System::parse_without_projects; val is the Vec<JdNumber> of the System.
parse_without_projects(input) == without_projects_match(many1(many0(3, input)))

\* The loop over the items of a category in System::parse_with_projects.
RECURSIVE with_projects_ids(_, _, _, _, _, _)
with_projects_add(a, project_area, project, area_label, category_label, items) ==
    IF a.ret.kind # "ok" THEN Err("Could not add jd number")
    ELSE with_projects_ids(a.id, project_area, project, area_label,
                           category_label, Tail(items))

with_projects_new(ids, jd, project_area, project, area_label, category_label, items) ==
    IF ~jd.ok THEN Err("Could not create a jd number")
    ELSE with_projects_add(add_id(ids, jd.val[1]), project_area, project,
                           area_label, category_label, items)

with_projects_ids(ids, project_area, project, area_label, category_label, items) ==
    IF Len(items) = 0 THEN Ok(ids)
    ELSE IF Head(items).head.project # Some(project.number)
    THEN Err("Project numbers do not match")
    ELSE with_projects_new(ids,
             new(area_label, category_label, Head(items).head.ac,
                 Head(items).head.id, Head(items).head.project,
                 Some(project_area.label), Some(project.label),
                 Head(items).head.label, <<>>),
             project_area, project, area_label, category_label, items)

\* The loop over the categories of an area in System::parse_with_projects.
RECURSIVE with_projects_categories(_, _, _, _, _)
with_projects_category(r, project_area, project, area, categories) ==
    IF r.kind # "ok" THEN r
    ELSE with_projects_categories(r.val, project_area, project, area,
                                  Tail(categories))

with_projects_categories(ids, project_area, project, area, categories) ==
    IF Len(categories) = 0 THEN Ok(ids)
    ELSE IF ~(area.first <= Head(categories).head.number
              /\ Head(categories).head.number <= area.second)
    THEN Err("Category not between area limits")
    ELSE with_projects_category(
             with_projects_ids(ids, project_area, project, area.label,
                               Head(categories).head.label,
                               Head(categories).under),
             project_area, project, area, categories)

\* The loop over the areas of a project in System::parse_with_projects.
RECURSIVE with_projects_areas(_, _, _, _)
with_projects_area(r, project_area, project, areas) ==
    IF r.kind # "ok" THEN r
    ELSE with_projects_areas(r.val, project_area, project, Tail(areas))

with_projects_areas(ids, project_area, project, areas) ==
    IF Len(areas) = 0 THEN Ok(ids)
    ELSE IF Head(areas).head.first % 10 # 0 THEN Err("Not a multiple of 10")
    ELSE IF Head(areas).head.first + 9 # Head(areas).head.second
    THEN Err("Not a difference of 9")
    ELSE with_projects_area(
             with_projects_categories(ids, project_area, project,
                                      Head(areas).head, Head(areas).under),
             project_area, project, areas)

\* The loop over the projects of a project area in
\* System::parse_with_projects, with the checks of the project area, which
\* run once for every project.
RECURSIVE with_projects_projects(_, _, _)
with_projects_project(r, project_area, projects) ==
    IF r.kind # "ok" THEN r
    ELSE with_projects_projects(r.val, project_area, Tail(projects))

with_projects_projects(ids, project_area, projects) ==
    IF Len(projects) = 0 THEN Ok(ids)
    ELSE IF ~(project_area.first <= Head(projects).head.number
              /\ Head(projects).head.number <= project_area.second)
    THEN Err("Project not between project ranges")
    ELSE IF project_area.first % 100 # 0
    THEN Err("First project number not a multiple of 100")
    ELSE IF project_area.first + 99 # project_area.second
    THEN Err("Second project number not 99 greater than first")
    ELSE with_projects_project(
             with_projects_areas(ids, project_area, Head(projects).head,
                                 Head(projects).under),
             project_area, projects)

\* The loop over the project areas in System::parse_with_projects.
RECURSIVE with_projects_project_areas(_, _)
with_projects_project_area(r, project_areas) ==
    IF r.kind # "ok" THEN r
    ELSE with_projects_project_areas(r.val, Tail(project_areas))

with_projects_project_areas(ids, project_areas) ==
    IF Len(project_areas) = 0 THEN Ok(ids)
    ELSE with_projects_project_area(
             with_projects_projects(ids, Head(project_areas).head,
                                    Head(project_areas).under),
             project_areas)

\* The match on what many1 returns in System::parse_with_projects.
with_projects_match(m) ==
    IF m.kind = "panic" THEN Panic
    ELSE IF m.kind = "err" THEN Err("Error parsing")
    ELSE with_projects_project_areas(<<>>, m.val)

\* System::parse_with_projects; val is the Vec<JdNumber> of the System.
parse_with_projects(input) == with_projects_match(many1(many0(1, input)))

\* The choice System::parse makes between the results of the two
\* productions.
parse_choice(with_projects, without_projects) ==
    IF with_projects.kind = "panic" \/ without_projects.kind = "panic"
    THEN Panic
    ELSE IF with_projects.kind = "ok" /\ without_projects.kind = "err"
    THEN with_projects
    ELSE IF with_projects.kind = "err" /\ without_projects.kind = "ok"
    THEN without_projects
    ELSE IF with_projects.kind = "err" /\ without_projects.kind = "err"
    THEN Err("Could not parse system.")
    ELSE Panic

\* System::parse
parse(input) ==
    parse_choice(parse_with_projects(input), parse_without_projects(input))

-----------------------------------------------------------------------------
(* The inputs the operations are called with.                              *)

Root == << <<"j", "d">> >>

Projects == {None, Some(101)}

Categories == {5, 12}

Ids == {1, 98}

Variants == {1, 2}

LabelOf(v) == IF v = 1 THEN <<"_", "a">> ELSE <<"_", "b">>

AreaLabelOf(v) == IF v = 1 THEN <<"_", "r">> ELSE <<"_", "s">>

CategoryLabelOf(v) == IF v = 1 THEN <<"_", "c">> ELSE <<"_", "d">>

ProjectLabelOf(v) == IF v = 1 THEN <<"_", "p">> ELSE <<"_", "q">>

ProjectAreaLabelOf(v) == IF v = 1 THEN <<"_", "g">> ELSE <<"_", "h">>

\* An identifier as the indexer hands it to add_id: labelled, with the
\* project labels present exactly when the project is, and a path.
MakeJd(p, c, i, v) ==
    LET jd == unwrap(new(AreaLabelOf(v), CategoryLabelOf(v), c, i, p,
                         IF is_some(p) THEN Some(ProjectLabelOf(v)) ELSE None,
                         IF is_some(p) THEN Some(ProjectAreaLabelOf(v))
                         ELSE None,
                         LabelOf(v), <<>>).val)
    IN  [jd EXCEPT !.path = get_relative_path(jd)]

\* Category 12 comes with both ids and both sets of labels, in and out of
\* the project; category 5 with one identifier of each.
JdInputs ==
    {MakeJd(p, 12, i, v) : p \in Projects, i \in Ids, v \in Variants}
    \cup {MakeJd(p, 5, 1, 1) : p \in Projects}

\* A lookup key: the numbers only, as the sentinel built from a typed string.
MakeKey(p, c, i) ==
    unwrap(new(<<>>, <<>>, c, i, p, None, None,
               <<"l", "a", "b", "e", "l">>, <<>>).val)

KeyInputs == {MakeKey(p, c, i) : p \in Projects, c \in Categories, i \in Ids}

\* Partial numbers as typed: "12", "05", "101.12", "101", "x", "12.98".
StrInputs ==
    { <<"1", "2">>,
      <<"0", "5">>,
      <<"1", "0", "1", ".", "1", "2">>,
      <<"1", "0", "1">>,
      <<"x">>,
      <<"1", "2", ".", "9", "8">> }

Titles == { <<"_", "t">> }

\* Filters typed for display only: "101.12.01", "", ".12", "12345".
FilterInputs ==
    { <<"1", "0", "1", ".", "1", "2", ".", "0", "1">>,
      <<>>,
      <<".", "1", "2">>,
      <<"1", "2", "3", "4", "5">> }

DisplayInputs == {None} \cup {Some(s) : s \in StrInputs \cup FilterInputs}

-----------------------------------------------------------------------------
(* The index as a state machine.                                           *)

Range(s) == {s[k] : k \in 1..Len(s)}

\* System::new(path), nothing called yet.
Init ==
    /\ path = Root
    /\ id = <<>>
    /\ op = "new"
    /\ arg = <<>>
    /\ ret = Ok(<<>>)
    /\ old = [path |-> Root, id |-> <<>>]
    /\ added = {}

\* A call of System::add_id(x).
AddId(x) ==
    LET r == add_id(id, x)
    IN  /\ Len(r.id) <= MaxLen
        /\ id' = r.id
        /\ op' = "add_id"
        /\ arg' = <<x>>
        /\ ret' = r.ret
        /\ old' = [path |-> path, id |-> id]
        /\ added' = IF r.ret.kind = "ok" THEN added \cup {x} ELSE added
        /\ UNCHANGED path

\* A call of System::add_id_from_str(jd, title).
AddIdFromStr(jd, title) ==
    LET r == add_id_from_str(path, id, jd, title)
    IN  /\ Len(r.id) <= MaxLen
        /\ id' = r.id
        /\ op' = "add_id_from_str"
        /\ arg' = <<jd, title>>
        /\ ret' = r.ret
        /\ old' = [path |-> path, id |-> id]
        /\ added' = IF r.ret.kind = "ok"
                    THEN added \cup (Range(r.id) \ Range(id))
                    ELSE added
        /\ UNCHANGED path

\* A call of System::get_id(key): &self, so the System stays as it is.
GetId(key) ==
    /\ op' = "get_id"
    /\ arg' = <<key>>
    /\ ret' = get_id(id, key)
    /\ old' = [path |-> path, id |-> id]
    /\ UNCHANGED <<path, id, added>>

\* A call of System::display(input): &self as well.
Display(input) ==
    /\ op' = "display"
    /\ arg' = <<input>>
    /\ ret' = display(id, input)
    /\ old' = [path |-> path, id |-> id]
    /\ UNCHANGED <<path, id, added>>

Next ==
    \/ \E x \in JdInputs : AddId(x)
    \/ \E jd \in StrInputs, title \in Titles : AddIdFromStr(jd, title)
    \/ \E key \in KeyInputs : GetId(key)
    \/ \E input \in DisplayInputs : Display(input)

Spec == Init /\ [][Next]_vars

-----------------------------------------------------------------------------
(* The order of identifiers as a pure function: three identifiers are      *)
(* drawn, then compared.                                                   *)

OrdProjects == {None, Some(0), Some(101)}

\* Every key of OrdProjects x Categories x Ids once, and the keys of
\* category 12 outside a project a second time under other labels.
OrdInputs ==
    {MakeJd(p, c, i, 1) : p \in OrdProjects, c \in Categories, i \in Ids}
    \cup {MakeJd(None, 12, i, 2) : i \in Ids}

InitOrd ==
    /\ path = Root
    /\ id = <<>>
    /\ op = "inputs"
    /\ arg \in {<<a, b, c>> : a \in OrdInputs, b \in OrdInputs, c \in OrdInputs}
    /\ ret = Ok(<<>>)
    /\ old = [path |-> Root, id |-> <<>>]
    /\ added = {}

\* a.cmp(&b), b.cmp(&a), b.cmp(&c), a.cmp(&c), a == b and a.partial_cmp(&b).
Compare ==
    /\ op = "inputs"
    /\ op' = "cmp"
    /\ ret' = Ok(<<[ab |-> cmp(arg[1], arg[2]),
                    ba |-> cmp(arg[2], arg[1]),
                    bc |-> cmp(arg[2], arg[3]),
                    ac |-> cmp(arg[1], arg[3]),
                    eq_ab |-> eq(arg[1], arg[2]),
                    partial_ab |-> partial_cmp(arg[1], arg[2])]>>)
    /\ UNCHANGED <<path, id, arg, old, added>>

NextOrd == Compare

SpecOrd == InitOrd /\ [][NextOrd]_vars

-----------------------------------------------------------------------------
(* JdNumber::new as a pure function: the arguments are drawn, then the     *)
(* constructor is called.                                                  *)

\* Categories and ids on both sides of the limit of 99.
NewNumbers == {0, 99, 100}

\* Projects on both sides of the limit of 999.
NewProjects == {None, Some(0), Some(999), Some(1000)}

\* [area_label, category_label, category, id, project, project_label,
\* project_area_label, label, path]
NewInputs ==
    {<<AreaLabelOf(v), CategoryLabelOf(v), c, i, p,
       IF is_some(p) THEN Some(ProjectLabelOf(v)) ELSE None,
       IF is_some(p) THEN Some(ProjectAreaLabelOf(v)) ELSE None,
       LabelOf(v), Root>> :
        c \in NewNumbers, i \in NewNumbers, p \in NewProjects, v \in Variants}

InitNew ==
    /\ path = Root
    /\ id = <<>>
    /\ op = "inputs"
    /\ arg \in NewInputs
    /\ ret = Ok(<<>>)
    /\ old = [path |-> Root, id |-> <<>>]
    /\ added = {}

\* JdNumber::new(arg...), a Result<JdNumber, ()>.
CallNew ==
    LET r == new(arg[1], arg[2], arg[3], arg[4], arg[5], arg[6], arg[7],
                 arg[8], arg[9])
    IN  /\ op = "inputs"
        /\ op' = "JdNumber::new"
        /\ ret' = IF r.ok THEN Ok(r.val) ELSE Err("")
        /\ UNCHANGED <<path, id, arg, old, added>>

NextNew == CallNew

SpecNew == InitNew /\ [][NextNew]_vars

-----------------------------------------------------------------------------
(* The two parsers of typed strings as pure functions: a string is drawn,  *)
(* then parsed.                                                            *)

\* The longest tail drawn.
MaxTailLen == 5

\* Two digits, the dot and a character that is neither.
TypedChars == {"1", "2", ".", "x"}

\* Nothing, "101" or "101." in front of the tail.
TypedPrefixes == { <<>>, <<"1", "0", "1">>, <<"1", "0", "1", ".">> }

\* Every string of TypedChars of up to MaxTailLen characters behind every
\* prefix.
TypedInputs ==
    {p \o t : p \in TypedPrefixes,
              t \in UNION {[1..n -> TypedChars] : n \in 0..MaxTailLen}}

InitStr ==
    /\ path = Root
    /\ id = <<>>
    /\ op = "inputs"
    /\ arg \in {<<s>> : s \in TypedInputs}
    /\ ret = Ok(<<>>)
    /\ old = [path |-> Root, id |-> <<>>]
    /\ added = {}

\* System::parse_jd_input(arg)
ParseJdInput ==
    /\ op = "inputs"
    /\ op' = "parse_jd_input"
    /\ ret' = Ok(<<parse_jd_input(arg[1])>>)
    /\ UNCHANGED <<path, id, arg, old, added>>

\* JdNumber::try_from(arg), arg a String
TryFromString ==
    /\ op = "inputs"
    /\ op' = "try_from_string"
    /\ ret' = try_from_string(arg[1])
    /\ UNCHANGED <<path, id, arg, old, added>>

NextStr ==
    \/ ParseJdInput
    \/ TryFromString

SpecStr == InitStr /\ [][NextStr]_vars

-----------------------------------------------------------------------------
(* The area and the relative path of an identifier as pure functions: an   *)
(* identifier of any category is drawn, then rendered.                     *)

\* One identifier of every category 0..99, outside and inside the project.
AreaInputs == {MakeJd(p, c, 1, 1) : p \in Projects, c \in 0..99}

InitArea ==
    /\ path = Root
    /\ id = <<>>
    /\ op = "inputs"
    /\ arg \in {<<jd>> : jd \in AreaInputs}
    /\ ret = Ok(<<>>)
    /\ old = [path |-> Root, id |-> <<>>]
    /\ added = {}

\* arg.get_area()
GetArea ==
    /\ op = "inputs"
    /\ op' = "get_area"
    /\ ret' = Ok(<<get_area(arg[1])>>)
    /\ UNCHANGED <<path, id, arg, old, added>>

\* arg.get_relative_path()
GetRelativePath ==
    /\ op = "inputs"
    /\ op' = "get_relative_path"
    /\ ret' = Ok(get_relative_path(arg[1]))
    /\ UNCHANGED <<path, id, arg, old, added>>

NextArea ==
    \/ GetArea
    \/ GetRelativePath

SpecArea == InitArea /\ [][NextArea]_vars

-----------------------------------------------------------------------------
(* JdNumber from a path as a pure function: a path is drawn and parsed,    *)
(* and the relative path of the identifier found is parsed again.          *)

\* The longest path drawn, in components.
MaxComponents == 4

\* Folder names: "10-19" with a line break behind it, "100-199_s", "100_p",
\* "101_q", "10-19_r", "00-09_r", "10_c", "05_d", "10.01_a", "100.10.01_a",
\* "05.01_b", "sub".
FolderNames ==
    { <<"1", "0", "-", "1", "9", "\n">>,
      <<"1", "0", "0", "-", "1", "9", "9", "_", "s">>,
      <<"1", "0", "0", "_", "p">>,
      <<"1", "0", "1", "_", "q">>,
      <<"1", "0", "-", "1", "9", "_", "r">>,
      <<"0", "0", "-", "0", "9", "_", "r">>,
      <<"1", "0", "_", "c">>,
      <<"0", "5", "_", "d">>,
      <<"1", "0", ".", "0", "1", "_", "a">>,
      <<"1", "0", "0", ".", "1", "0", ".", "0", "1", "_", "a">>,
      <<"0", "5", ".", "0", "1", "_", "b">>,
      <<"s", "u", "b">> }

\* Every path of up to MaxComponents different folder names.
PathInputs ==
    {p \in UNION {[1..n -> FolderNames] : n \in 0..MaxComponents} :
        \A i, j \in 1..Len(p) : p[i] = p[j] => i = j}

InitPath ==
    /\ path = Root
    /\ id = <<>>
    /\ op = "inputs"
    /\ arg \in {<<p>> : p \in PathInputs}
    /\ ret = Ok(<<>>)
    /\ old = [path |-> Root, id |-> <<>>]
    /\ added = {}

\* JdNumber::try_from(arg), arg a PathBuf
TryFromPath ==
    /\ op = "inputs"
    /\ op' = "try_from_path"
    /\ ret' = try_from_path(arg[1])
    /\ UNCHANGED <<path, id, arg, old, added>>

\* JdNumber::try_from(x.get_relative_path()) for the identifier x just
\* parsed, which old.id keeps.
TryFromRelativePath ==
    /\ op = "try_from_path"
    /\ ret.kind = "ok"
    /\ op' = "try_from_relative_path"
    /\ old' = [path |-> path, id |-> ret.val]
    /\ ret' = try_from_path(get_relative_path(ret.val[1]))
    /\ UNCHANGED <<path, id, arg, added>>

NextPath ==
    \/ TryFromPath
    \/ TryFromRelativePath

SpecPath == InitPath /\ [][NextPath]_vars

-----------------------------------------------------------------------------
(* System::parse as a pure function: the lines of a system description are *)
(* drawn, then parsed; the index is the one System::parse returns.         *)

MaxLines == 5

SystemLines ==
    { <<"1", "0", "0", "-", "1", "9", "9", " ", "g">>,
      <<"1", "0", "0", "-", "1", "9", "8", " ", "h">>,
      <<" ", "1", "0", "1", " ", "p">>,
      <<" ", "1", "0", "2", " ", "q">>,
      <<" ", "1", "0", "-", "1", "9", " ", "r">>,
      <<"1", "2", " ", "c">>,
      <<"2", "5", " ", "d">>,
      <<"1", "2", ".", "0", "1", " ", "a">>,
      <<"1", "3", ".", "0", "1", " ", "b">>,
      <<"1", "0", "1", ".", "1", "2", ".", "0", "1", " ", "a">>,
      <<"1", "<", "0", "-", "1", "9", " ", "r">> }

SystemInputs ==
    {t \in UNION {[1..n -> SystemLines] : n \in 0..MaxLines} :
        \A i, j \in 1..Len(t) : t[i] = t[j] => i = j}

InitParse ==
    /\ path = <<>>
    /\ id = <<>>
    /\ op = "inputs"
    /\ arg \in {<<t>> : t \in SystemInputs}
    /\ ret = Ok(<<>>)
    /\ old = [path |-> <<>>, id |-> <<>>]
    /\ added = {}

ParseSystem ==
    /\ op = "inputs"
    /\ op' = "parse"
    /\ ret' = parse(arg[1])
    /\ id' = IF ret'.kind = "ok" THEN ret'.val ELSE id
    /\ UNCHANGED <<path, arg, old, added>>

SpecParse == InitParse /\ [][ParseSystem]_vars

-----------------------------------------------------------------------------
(* JdNumber from a path whose area range has the wrong numbers: a path is  *)
(* drawn and parsed.                                                       *)

RangeFolderNames ==
    { <<"1", "1", "-", "2", "0", "_", "r">>,
      <<"1", "0", "-", "1", "8", "_", "r">>,
      <<"1", "0", "-", "1", "9", "_", "r">>,
      <<"1", "2", "_", "c">>,
      <<"1", "2", ".", "0", "1", "_", "a">>,
      <<"1", "3", ".", "0", "1", "_", "b">> }

RangeInputs ==
    {p \in UNION {[1..n -> RangeFolderNames] : n \in 0..MaxComponents} :
        \A i, j \in 1..Len(p) : p[i] = p[j] => i = j}

InitRange ==
    /\ path = Root
    /\ id = <<>>
    /\ op = "inputs"
    /\ arg \in {<<p>> : p \in RangeInputs}
    /\ ret = Ok(<<>>)
    /\ old = [path |-> Root, id |-> <<>>]
    /\ added = {}

SpecRange == InitRange /\ [][TryFromPath]_vars

-----------------------------------------------------------------------------
(* System::display as a pure function: an index is drawn, whose entries    *)
(* carry their labels independently of their numbers, then displayed.      *)

MaxShown == 3

\* The pairs of an area label and a category label.
ShowLabels ==
    { <<AreaLabelOf(1), CategoryLabelOf(1)>>,
      <<AreaLabelOf(1), CategoryLabelOf(2)>>,
      <<AreaLabelOf(2), CategoryLabelOf(1)>> }

\* The pairs of a project and a project label: two projects share a label.
ShowProjects ==
    { <<None, None>>,
      <<Some(101), Some(ProjectLabelOf(1))>>,
      <<Some(102), Some(ProjectLabelOf(1))>>,
      <<Some(102), Some(ProjectLabelOf(2))>> }

ShowJd(p, c, i, l) ==
    unwrap(new(l[1], l[2], c, i, p[1], p[2], p[2], LabelOf(1), <<>>).val)

ShowIds ==
    {ShowJd(p, c, 1, l) : p \in ShowProjects, c \in Categories, l \in ShowLabels}
    \cup {ShowJd(<<None, None>>, 12, 98, l) : l \in ShowLabels}

\* The indexes: the sequences System::add_id builds, sorted and without
\* two entries of one number.
ShowIndexes ==
    {s \in UNION {[1..n -> ShowIds] : n \in 0..MaxShown} :
        \A k \in 1..(Len(s) - 1) : cmp(s[k], s[k + 1]) = "Less"}

ShowFilters == {None, Some(<<"1", "2">>), Some(<<"1", "0", "2">>)}

InitShow ==
    /\ path = Root
    /\ id \in ShowIndexes
    /\ op = "inputs"
    /\ arg = <<>>
    /\ ret = Ok(<<>>)
    /\ old = [path |-> Root, id |-> id]
    /\ added = {}

ShowIndex ==
    /\ op = "inputs"
    /\ \E input \in ShowFilters : Display(input)

SpecShow == InitShow /\ [][ShowIndex]_vars

-----------------------------------------------------------------------------
(* What the claims are stated with.                                        *)

\* The (project, category, id) of an identifier, an absent project below
\* every present one.
KeyOf(jd) ==
    <<IF is_some(jd.project) THEN unwrap(jd.project) ELSE -1,
      jd.category, jd.id>>

SameKey(a, b) == KeyOf(a) = KeyOf(b)

\* The lexicographic order on (project, category, id).
KeyLess(a, b) ==
    LET ka == KeyOf(a)
        kb == KeyOf(b)
    IN  \/ ka[1] < kb[1]
        \/ ka[1] = kb[1] /\ ka[2] < kb[2]
        \/ ka[1] = kb[1] /\ ka[2] = kb[2] /\ ka[3] < kb[3]

LexOrder(a, b) ==
    IF KeyLess(a, b) THEN "Less"
    ELSE IF KeyLess(b, a) THEN "Greater"
    ELSE "Equal"

\* s without its k-th element.
Without(s, k) == SubSeq(s, 1, k - 1) \o SubSeq(s, k + 1, Len(s))

IsShape(s, shape) ==
    /\ Len(s) = Len(shape)
    /\ \A k \in 1..Len(shape) :
         IF shape[k] = "D" THEN IsDigit(s[k]) ELSE s[k] = shape[k]

\* The partial number a typed string names: DDD.DD.DD, DD.DD, DDD.DD, DD,
\* DDD, and nothing for any other string.
PartialNumber(s) ==
    IF IsShape(s, <<"D", "D", "D", ".", "D", "D", ".", "D", "D">>)
    THEN [project |-> Some(parse_u32(SubSeq(s, 1, 3))),
          category |-> Some(parse_u32(SubSeq(s, 5, 6))),
          id |-> Some(parse_u32(SubSeq(s, 8, 9)))]
    ELSE IF IsShape(s, <<"D", "D", ".", "D", "D">>)
    THEN [project |-> None,
          category |-> Some(parse_u32(SubSeq(s, 1, 2))),
          id |-> Some(parse_u32(SubSeq(s, 4, 5)))]
    ELSE IF IsShape(s, <<"D", "D", "D", ".", "D", "D">>)
    THEN [project |-> Some(parse_u32(SubSeq(s, 1, 3))),
          category |-> Some(parse_u32(SubSeq(s, 5, 6))),
          id |-> None]
    ELSE IF IsShape(s, <<"D", "D">>)
    THEN [project |-> None, category |-> Some(parse_u32(s)), id |-> None]
    ELSE IF IsShape(s, <<"D", "D", "D">>)
    THEN [project |-> Some(parse_u32(s)), category |-> None, id |-> None]
    ELSE [project |-> None, category |-> None, id |-> None]

\* The entries of ids in the (project, category) bucket b names.
Bucket(ids, b) ==
    {e \in Range(ids) : e.project = b.project
                        /\ e.category = unwrap(b.category)}

\* The largest id of a non-empty set of identifiers.
MaxId(S) == CHOOSE m \in {e.id : e \in S} : \A e \in S : e.id <= m

AutoAddCalled == op = "add_id_from_str"

AutoAddOk == op = "add_id_from_str" /\ ret.kind = "ok"

\* The positions at which id holds an entry that old.id lacks, the rest of
\* id being old.id.
NewAt == {m \in 1..Len(id) : Without(id, m) = old.id}

-----------------------------------------------------------------------------
(* C1: after any sequence of Add and Auto-Add calls, failing or not, the   *)
(* stored sequence is strictly increasing under the (project, category,    *)
(* id) order: every adjacent pair a, b has a < b.                          *)
C1_StrictlyIncreasing ==
    \A k \in 1..(Len(id) - 1) : KeyLess(id[k], id[k + 1])

\* An Auto-Add has just put its identifier between two stored ones.
C1_Witness ==
    /\ AutoAddOk
    /\ Len(id) >= 3
    /\ \E m \in 2..(Len(id) - 1) : m \in NewAt

(* C2: Add(x) returns the Duplicate error "Element already exists." if and *)
(* only if the index already holds an entry with x's (project, category,   *)
(* id); otherwise it returns ok and the index then holds x exactly once.   *)
C2_DuplicateIff ==
    op = "add_id" =>
        LET x == arg[1]
            held == \E k \in 1..Len(old.id) : SameKey(old.id[k], x)
        IN  /\ (ret.kind = "err" /\ ret.err = "Element already exists.")
                  <=> held
            /\ ~held =>
                  /\ ret.kind = "ok"
                  /\ Cardinality({k \in 1..Len(id) : id[k] = x}) = 1
                  /\ Cardinality({k \in 1..Len(id) : SameKey(id[k], x)}) = 1

\* Add was refused for an identifier whose numbers are stored under other
\* labels.
C2_Witness ==
    /\ op = "add_id"
    /\ ret.kind = "err"
    /\ Len(id) >= 2
    /\ \E k \in 1..Len(id) : SameKey(id[k], arg[1]) /\ id[k] # arg[1]

(* C3: whenever an index operation returns an error, the root path and the *)
(* identifier sequence are what they were before the call; Lookup and      *)
(* Display leave the index unchanged also when they succeed.               *)
C3_ErrorLeavesIndex ==
    (ret.kind = "err" \/ op \in {"get_id", "display"}) =>
        /\ path = old.path
        /\ id = old.id

\* Auto-Add failed on the id overflow in an index of several entries.
C3_Witness ==
    /\ AutoAddCalled
    /\ ret.kind = "err"
    /\ ret.err = "Could not create JD number."
    /\ Len(id) >= 2

(* C4: adding identifiers with pairwise distinct (project, category, id)   *)
(* to an empty index yields, in whatever order they are added, the set     *)
(* sorted under the (project, category, id) order: the k-th stored entry   *)
(* is the inserted identifier with exactly k - 1 smaller ones.             *)
C4_OrderIndependent ==
    /\ Len(id) = Cardinality(added)
    /\ \A k \in 1..Len(id) :
         /\ id[k] \in added
         /\ Cardinality({e \in added : KeyLess(e, id[k])}) = k - 1

\* Three identifiers are stored and the one added last is the smallest.
C4_Witness ==
    /\ op = "add_id"
    /\ ret.kind = "ok"
    /\ Len(id) = 3
    /\ arg[1] = id[1]

(* C5: the comparison of two identifiers is the lexicographic order on     *)
(* (project, category, id) with an absent project below every present one; *)
(* it is antisymmetric, transitive and total, and two identifiers compare  *)
(* Equal, and are ==, exactly when the three numbers agree, whatever the   *)
(* labels and the path.                                                    *)
C5_TotalOrder ==
    op = "cmp" =>
        LET a == arg[1]
            b == arg[2]
            r == ret.val[1]
        IN  /\ r.ab = LexOrder(a, b)
            /\ r.partial_ab = Some(r.ab)
            /\ r.ab \in {"Less", "Equal", "Greater"}
            /\ (r.ab = "Less") <=> (r.ba = "Greater")
            /\ (r.ab = "Equal") <=> (r.ba = "Equal")
            /\ (r.ab # "Greater" /\ r.bc # "Greater") => r.ac # "Greater"
            /\ (r.ab = "Less" /\ r.bc = "Less") => r.ac = "Less"
            /\ (r.ab = "Equal") <=> r.eq_ab
            /\ r.eq_ab <=> (/\ a.project = b.project
                            /\ a.category = b.category
                            /\ a.id = b.id)

\* An identifier without a project was compared with one of project 0 and
\* a smaller category, and with one that differs from it in labels only.
C5_Witness ==
    /\ op = "cmp"
    /\ is_none(arg[1].project)
    /\ arg[2].project = Some(0)
    /\ arg[1].category > arg[2].category
    /\ ret.val[1].ab = "Less"
    /\ SameKey(arg[1], arg[3])
    /\ arg[1].label # arg[3].label
    /\ ret.val[1].ac = "Equal"

(* C6: Lookup(key) returns NotFound, "Could not find JD", if and only if *)
(* no stored entry has the key's (project, category, id); otherwise it     *)
(* returns a copy of the stored entry, with the stored labels and path and *)
(* not the key's.                                                          *)
C6_LookupIff ==
    op = "get_id" =>
        LET key == arg[1]
            hits == {k \in 1..Len(id) : SameKey(id[k], key)}
        IN  /\ (ret.kind = "err" /\ ret.err = "Could not find JD")
                  <=> hits = {}
            /\ hits # {} =>
                  /\ ret.kind = "ok"
                  /\ \E k \in hits : ret.val = <<id[k]>>

\* A Lookup in a full index found an entry that is not the key itself.
C6_Witness ==
    /\ op = "get_id"
    /\ ret.kind = "ok"
    /\ Len(id) = 3
    /\ ret.val[1] # arg[1]
    /\ ret.val[1].path # <<>>

C9_MissingCategoryIff ==
    AutoAddCalled =>
        IF is_none(parse_jd_input(arg[1]).category)
        THEN ret.kind = "err" /\ ret.err = "Could not find category."
        ELSE \/ ret.kind = "ok"
             \/ ret.kind = "err" /\ ret.err # "Could not find category."

C11_NewFailsIff ==
    op = "JdNumber::new" =>
        /\ ret.kind = "err" <=>
              \/ arg[3] > 99
              \/ arg[4] > 99
              \/ is_some(arg[5]) /\ unwrap(arg[5]) > 999
        /\ ret.kind # "err" =>
              /\ ret.kind = "ok"
              /\ Len(ret.val) = 1
              /\ ret.val[1].area_label = arg[1]
              /\ ret.val[1].category_label = arg[2]
              /\ ret.val[1].category = arg[3]
              /\ ret.val[1].id = arg[4]
              /\ ret.val[1].project = arg[5]
              /\ ret.val[1].project_label = arg[6]
              /\ ret.val[1].project_area_label = arg[7]
              /\ ret.val[1].label = arg[8]
              /\ ret.val[1].path = arg[9]

\* The constructor succeeded with every number on its limit.
C11_Witness ==
    /\ op = "JdNumber::new"
    /\ ret.kind = "ok"
    /\ arg[3] = 99
    /\ arg[4] = 99
    /\ arg[5] = Some(999)

\* What display prints for a list of identifiers, headers included.
Rendering(jd_list) == display_loop(jd_list, <<>>, <<>>, <<>>, None)

\* The filter of a display call as a string, "" when none was given.
FilterOf(input) == IF is_some(input) THEN unwrap(input) ELSE <<>>

\* The positions of the index whose entry has exactly the numbers of n.
ExactMatches(ids, n) ==
    {k \in 1..Len(ids) : /\ ids[k].project = n.project
                         /\ ids[k].category = unwrap(n.category)
                         /\ ids[k].id = unwrap(n.id)}

\* A display call whose filter parses to both a category and an id.
DisplayExact ==
    /\ op = "display"
    /\ is_some(parse_jd_input(FilterOf(arg[1])).category)
    /\ is_some(parse_jd_input(FilterOf(arg[1])).id)

\* C12: display with a filter that parses to a category and an id returns
\* the error "Cannot find JD number." if and only if no entry of the index
\* has exactly the parsed (project, category, id); otherwise it prints that
\* one entry with its headers and no other.
C12_ExactDisplay ==
    DisplayExact =>
        LET m == ExactMatches(id, parse_jd_input(FilterOf(arg[1])))
        IN  /\ ret = Err("Cannot find JD number.") <=> m = {}
            /\ m # {} => /\ Cardinality(m) = 1
                         /\ \A k \in m : ret = Rendering(<<id[k]>>)
                         /\ ret.kind = "ok"

\* An exact number inside a project was displayed out of an index that
\* holds other entries too.
C12_Witness ==
    /\ DisplayExact
    /\ is_some(parse_jd_input(FilterOf(arg[1])).project)
    /\ ret.kind = "ok"
    /\ Len(id) = 3

\* The entries of ids a partial number n without an id selects, in index
\* order: those of its project and category, those of its project, or all.
Selection(ids, n) ==
    IF is_some(n.category)
    THEN SelectSeq(ids, LAMBDA e : /\ e.project = n.project
                                   /\ e.category = unwrap(n.category))
    ELSE IF is_some(n.project)
    THEN SelectSeq(ids, LAMBDA e : e.project = n.project)
    ELSE ids

C14_ParsesExactlyTheForms ==
    op = "parse_jd_input" => ret = Ok(<<PartialNumber(arg[1])>>)

\* C15: JdNumber::try_from of a string succeeds exactly for DD.DD (project
\* absent) and DDD.DD.DD (project present), yielding those numbers; every
\* other string is rejected, the empty string, a string with a leading dot
\* and a string whose first digit group has five digits included.
C15_ShortStringForms ==
    op = "try_from_string" =>
        IF IsShape(arg[1], <<"D", "D", ".", "D", "D">>)
        THEN /\ ret.kind = "ok"
             /\ ret.val[1].project = None
             /\ ret.val[1].category = parse_u32(SubSeq(arg[1], 1, 2))
             /\ ret.val[1].id = parse_u32(SubSeq(arg[1], 4, 5))
        ELSE IF IsShape(arg[1], <<"D", "D", "D", ".", "D", "D", ".", "D", "D">>)
        THEN /\ ret.kind = "ok"
             /\ ret.val[1].project = Some(parse_u32(SubSeq(arg[1], 1, 3)))
             /\ ret.val[1].category = parse_u32(SubSeq(arg[1], 5, 6))
             /\ ret.val[1].id = parse_u32(SubSeq(arg[1], 8, 9))
        ELSE ret.kind = "err"

\* "AA-BB<area_label>" with AA = (category / 10) * 10 on two digits and
\* BB = AA + 9.
AreaName(jd) ==
    PadZero(to_string((jd.category \div 10) * 10), 2) \o <<"-">>
      \o PadZero(to_string((jd.category \div 10) * 10 + 9), 2)
      \o jd.area_label

\* C16: for every identifier with a category c in 0..99 the area header
\* and the area component of the relative path, the third from the end,
\* are "AA-BB<area_label>" with AA = (c / 10) * 10 on two digits and
\* BB = AA + 9; categories 0 to 9 have the area 00-09.
C16_AreaOfCategory ==
    /\ op = "get_area" => ret.val[1] = AreaName(arg[1])
    /\ op = "get_relative_path" =>
          ret.val[Len(ret.val) - 2] = AreaName(arg[1])

\* The folder names of the layout: "DD-DD<label>", "DD<label>",
\* "DDD-DDD<label>", "DDD<label>" and "[DDD.]DD.DD<label>", a label
\* starting with a character that is no digit.
IsAreaRangeName(s) ==
    /\ Len(s) >= 6
    /\ IsShape(SubSeq(s, 1, 5), <<"D", "D", "-", "D", "D">>)
    /\ ~IsDigit(s[6])

IsCategoryName(s) ==
    /\ Len(s) >= 3
    /\ IsShape(SubSeq(s, 1, 2), <<"D", "D">>)
    /\ ~IsDigit(s[3])
    /\ s[3] # "."
    /\ ~IsAreaRangeName(s)

IsProjectAreaName(s) ==
    /\ Len(s) >= 8
    /\ IsShape(SubSeq(s, 1, 7), <<"D", "D", "D", "-", "D", "D", "D">>)
    /\ ~IsDigit(s[8])

IsProjectName(s) ==
    /\ Len(s) >= 4
    /\ IsShape(SubSeq(s, 1, 3), <<"D", "D", "D">>)
    /\ ~IsDigit(s[4])
    /\ s[4] # "."
    /\ ~IsProjectAreaName(s)

IsShortItemName(s) ==
    /\ Len(s) >= 6
    /\ IsShape(SubSeq(s, 1, 5), <<"D", "D", ".", "D", "D">>)
    /\ ~IsDigit(s[6])

IsProjectItemName(s) ==
    /\ Len(s) >= 10
    /\ IsShape(SubSeq(s, 1, 9), <<"D", "D", "D", ".", "D", "D", ".", "D", "D">>)
    /\ ~IsDigit(s[10])

IsItemName(s) == IsShortItemName(s) \/ IsProjectItemName(s)

\* The project and the first two-digit group an item name carries.
ItemProject(s) ==
    IF IsProjectItemName(s) THEN Some(parse_u32(SubSeq(s, 1, 3))) ELSE None

ItemCategory(s) ==
    IF IsProjectItemName(s) THEN parse_u32(SubSeq(s, 5, 6))
    ELSE parse_u32(SubSeq(s, 1, 2))

\* The largest element of a non-empty set of positions.
Last(S) == CHOOSE m \in S : \A k \in S : k <= m

\* C17: JdNumber::try_from of a path succeeds only if the path holds, in
\* this order, an area-range component, a category component and, as its
\* last component, an item component; a path without a category
\* component, with its item component not the last one or with the
\* components in another order is rejected.
C17_OnlyOrderedPaths ==
    (op = "try_from_path" /\ ret.kind = "ok") =>
        \E i, j \in 1..Len(arg[1]) :
            /\ i < j
            /\ j < Len(arg[1])
            /\ IsAreaRangeName(arg[1][i])
            /\ IsCategoryName(arg[1][j])
            /\ IsItemName(arg[1][Len(arg[1])])

\* The positions of the item components of p, and of the project and the
\* category components in front of position k.
ItemsOf(p) == {k \in 1..Len(p) : IsItemName(p[k])}

ProjectsBefore(p, k) == {i \in 1..(k - 1) : IsProjectName(p[i])}

CategoriesBefore(p, k) == {i \in 1..(k - 1) : IsCategoryName(p[i])}

\* The item component at position k of p disagrees with the project
\* component or with the category component nearest in front of it.
DisagreesAt(p, k) ==
    \/ ProjectsBefore(p, k) = {} /\ is_some(ItemProject(p[k]))
    \/ ProjectsBefore(p, k) # {} /\ is_none(ItemProject(p[k]))
    \/ /\ ProjectsBefore(p, k) # {}
       /\ ItemProject(p[k])
            # Some(parse_u32(SubSeq(p[Last(ProjectsBefore(p, k))], 1, 3)))
    \/ /\ CategoriesBefore(p, k) # {}
       /\ ItemCategory(p[k])
            # parse_u32(SubSeq(p[Last(CategoriesBefore(p, k))], 1, 2))

\* C18: JdNumber::try_from of a path fails whenever the item component
\* disagrees with the components in front of it: its project number
\* differs from the number of the project component, or exactly one of the
\* two is absent, or its first two-digit group differs from the number of
\* the category component.
C18_DisagreementFails ==
    (/\ op = "try_from_path"
     /\ ItemsOf(arg[1]) # {}
     /\ DisagreesAt(arg[1], Last(ItemsOf(arg[1])))) => ret.kind = "err"

\* The diagnostics of the five required captures.
MissingAreaErrors == {"Could not find area name"}

MissingCategoryErrors == {"Could not find category name", "Could not find category"}

MissingItemErrors == {"Could not find id", "Could not find JD name"}

\* No component of p is an area range, a category, an item.
LacksArea(p) == \A k \in 1..Len(p) : ~IsAreaRangeName(p[k])

LacksCategory(p) == \A k \in 1..Len(p) : ~IsCategoryName(p[k])

LacksItem(p) == \A k \in 1..Len(p) : ~IsItemName(p[k])

\* C19: when JdNumber::try_from of a path fails because a required capture
\* is missing, the error names a missing part: "Could not find area name"
\* without an area range, "Could not find category name" or "Could not
\* find category" without a category, "Could not find id" or "Could not
\* find JD name" without an item.
C19_MissingPartNamed ==
    (/\ op = "try_from_path"
     /\ LacksArea(arg[1]) \/ LacksCategory(arg[1]) \/ LacksItem(arg[1])) =>
        /\ ret.kind = "err"
        /\ ret.err \in
              (IF LacksArea(arg[1]) THEN MissingAreaErrors ELSE {})
              \cup (IF LacksCategory(arg[1]) THEN MissingCategoryErrors ELSE {})
              \cup (IF LacksItem(arg[1]) THEN MissingItemErrors ELSE {})

\* Of the five diagnostics only "Could not find category name" is the
\* error of any path parsed, and only of a path without an item.
OtherDiagnosticsNeverReturned ==
    op = "try_from_path" =>
        /\ ret.err \notin MissingAreaErrors \cup MissingItemErrors
                          \cup {"Could not find category"}
        /\ ret.err = "Could not find category name" => LacksItem(arg[1])

\* C20: for every identifier x parsed from a path, parsing the relative
\* path of x succeeds and gives an identifier with the project, category
\* and id of x and with its project_label, area_label, category_label and
\* label.
C20_RelativePathRoundTrip ==
    op = "try_from_relative_path" =>
        /\ ret.kind = "ok"
        /\ ret.val[1].project = old.id[1].project
        /\ ret.val[1].category = old.id[1].category
        /\ ret.val[1].id = old.id[1].id
        /\ ret.val[1].project_label = old.id[1].project_label
        /\ ret.val[1].area_label = old.id[1].area_label
        /\ ret.val[1].category_label = old.id[1].category_label
        /\ ret.val[1].label = old.id[1].label

\* The same for the paths whose folder names hold no line break.
RoundTripWithoutLineBreaks ==
    (/\ op = "try_from_relative_path"
     /\ \A k \in 1..Len(arg[1]) : IsDotStar(arg[1][k])) =>
        /\ ret.kind = "ok"
        /\ ret.val[1].project = old.id[1].project
        /\ ret.val[1].category = old.id[1].category
        /\ ret.val[1].id = old.id[1].id
        /\ ret.val[1].project_label = old.id[1].project_label
        /\ ret.val[1].area_label = old.id[1].area_label
        /\ ret.val[1].category_label = old.id[1].category_label
        /\ ret.val[1].label = old.id[1].label

-----------------------------------------------------------------------------
(* C21: every identifier stored in an index that was built by Parse-System *)
(* has a project label if and only if it has a project.                    *)
C21_ProjectLabelIffProject ==
    op = "parse" =>
        \A k \in 1..Len(id) :
            is_some(id[k].project_label) <=> is_some(id[k].project)

\* The identifiers System::parse_with_projects stores have a project and
\* both labels, those TryFrom<PathBuf> returns have a project label exactly
\* when they have a project.
ProjectLabelIffProjectElsewhere ==
    /\ op = "parse" /\ parse_with_projects(arg[1]).kind = "ok" =>
           \A k \in 1..Len(id) :
               is_some(id[k].project_label) /\ is_some(id[k].project)
    /\ op = "try_from_path" /\ ret.kind = "ok" =>
           (is_some(ret.val[1].project_label) <=> is_some(ret.val[1].project))

-----------------------------------------------------------------------------
(* The lines of a text as the grammar groups them.                         *)

\* The elements of a sequence.
Elems(s) == {s[k] : k \in 1..Len(s)}

\* What many1 returns in the with-projects production.
WithTree(t) == many1(many0(1, t))

\* What many1 returns in the without-projects production.
WithoutTree(t) == many1(many0(3, t))

\* The project-area lines of a text, each with what is nested under it.
ProjectAreaNodes(t) ==
    IF WithTree(t).kind = "ok" THEN Elems(WithTree(t).val) ELSE {}

\* The project lines of a text.
ProjectNodes(t) == UNION {Elems(pa.under) : pa \in ProjectAreaNodes(t)}

\* The area lines of a text.
AreaNodes(t) ==
    IF WithoutTree(t).kind = "ok" THEN Elems(WithoutTree(t).val)
    ELSE UNION {Elems(p.under) : p \in ProjectNodes(t)}

\* Some category line's number is outside the range of the area line that
\* encloses it.
CategoryOutsideArea(t) ==
    \E a \in AreaNodes(t) : \E c \in Elems(a.under) :
        ~(a.head.first <= c.head.number /\ c.head.number <= a.head.second)

(* C22: System::parse fails on every text in which some category line's    *)
(* number lies outside the range of its enclosing area line, and the error *)
(* it returns is "Category not between area limits".                       *)
C22_CategoryOutsideAreaDiagnostic ==
    op = "parse" /\ CategoryOutsideArea(arg[1]) =>
        ret.kind = "err" /\ ret.err = "Category not between area limits"

\* Such a text makes System::parse fail, and the only error System::parse
\* ever returns is "Could not parse system.".
CategoryOutsideAreaFails ==
    /\ op = "parse" /\ CategoryOutsideArea(arg[1]) => ret.kind = "err"
    /\ op = "parse" /\ ret.kind = "err" => ret.err = "Could not parse system."

\* A text with such a category line has been parsed.
CategoryOutsideAreaParsed == op = "parse" /\ CategoryOutsideArea(arg[1])

-----------------------------------------------------------------------------
\* The numbers of a project-area line do not make a range of a hundred.
BadProjectArea(pa) ==
    pa.head.first % 100 # 0 \/ pa.head.second # pa.head.first + 99

(* C23: System::parse fails on every text with a project-area line F-S,    *)
(* read by the with-projects production, where F is no multiple of 100 or  *)
(* S is not F + 99, whether or not a project line follows that line.       *)
C23_BadProjectAreaFails ==
    op = "parse" /\ (\E pa \in ProjectAreaNodes(arg[1]) : BadProjectArea(pa))
        => ret.kind = "err"

\* System::parse does fail when a project line follows the project-area
\* line.
BadProjectAreaWithProjectFails ==
    op = "parse" /\ (\E pa \in ProjectAreaNodes(arg[1]) :
                         BadProjectArea(pa) /\ Len(pa.under) > 0)
        => ret.kind = "err"

-----------------------------------------------------------------------------
\* The item lines under an area line.
ItemNodes(a) == UNION {Elems(c.under) : c \in Elems(a.under)}

\* An item line with a project number stands in a text without project
\* lines.
ProjectItemWithoutProject(t) ==
    /\ WithoutTree(t).kind = "ok"
    /\ \E a \in AreaNodes(t) : \E i \in ItemNodes(a) : is_some(i.head.project)

\* An item line with a project number stands under the line of another
\* project.
ProjectItemInOtherProject(t) ==
    \E p \in ProjectNodes(t) : \E a \in Elems(p.under) : \E i \in ItemNodes(a) :
        is_some(i.head.project) /\ i.head.project # Some(p.head.number)

(* C24: an item line with a project number is accepted only when that      *)
(* number is the number of the project line that encloses it: with no      *)
(* enclosing project line, or under another project, System::parse fails.  *)
C24_ForeignProjectItemFails ==
    op = "parse" /\ (\/ ProjectItemWithoutProject(arg[1])
                     \/ ProjectItemInOtherProject(arg[1]))
        => ret.kind = "err"

\* Under the line of another project the item makes System::parse fail.
ProjectItemInOtherProjectFails ==
    op = "parse" /\ ProjectItemInOtherProject(arg[1]) => ret.kind = "err"

\* An item under the line of another project has been parsed.
ProjectItemInOtherProjectParsed ==
    op = "parse" /\ ProjectItemInOtherProject(arg[1])

-----------------------------------------------------------------------------
\* The components of a path that are named as an area range.
AreaRangesOf(p) == {k \in 1..Len(p) : IsAreaRangeName(p[k])}

\* The two numbers of the last area-range component of a path.
AreaFirst(p) == parse_u32(SubSeq(p[Last(AreaRangesOf(p))], 1, 2))

AreaSecond(p) == parse_u32(SubSeq(p[Last(AreaRangesOf(p))], 4, 5))

RangeShapeErrors ==
    {"First area number is not a multiple of 10.", "Second area number is not 9 more than the first number."}

\* What the claim says of a path with an area-range component.
AreaRangeChecked(p, r) ==
    /\ AreaFirst(p) % 10 # 0
           => r = Err("First area number is not a multiple of 10.")
    /\ AreaFirst(p) % 10 = 0 /\ AreaSecond(p) # AreaFirst(p) + 9
           => r = Err("Second area number is not 9 more than the first number.")
    /\ AreaFirst(p) % 10 = 0 /\ AreaSecond(p) = AreaFirst(p) + 9
           => r.err \notin RangeShapeErrors

\* The project and the category captured from the components of a path are
\* those of its item.
ItemAgrees(p) ==
    /\ try_from_path_loop(p, NoCaptures).project
           = try_from_path_loop(p, NoCaptures).jd_project
    /\ try_from_path_loop(p, NoCaptures).category
           = try_from_path_loop(p, NoCaptures).jd_category

-----------------------------------------------------------------------------
\* The identifiers System::display has selected.
Selected == display_select(id, parse_jd_input(FilterOf(arg[1]))).val

\* The labels of the entry before the k-th of l, those of no entry for the
\* first.
PreviousProjectLabel(l, k) == IF k = 1 THEN None ELSE l[k - 1].project_label

PreviousAreaLabel(l, k) == IF k = 1 THEN <<>> ELSE l[k - 1].area_label

PreviousCategoryLabel(l, k) == IF k = 1 THEN <<>> ELSE l[k - 1].category_label

Indent(n) == [k \in 1..n |-> " "]

ProjectHeader(e) ==
    to_string(unwrap(e.project))
      \o (IF is_some(e.project_label) THEN unwrap(e.project_label) ELSE <<>>)

AreaHeader(e) == Indent(2) \o get_area(e)

CategoryHeader(e) == Indent(4) \o to_string(e.category) \o e.category_label

ItemLine(e) == Indent(6) \o jd_to_string(e)

\* The lines shown for the k-th of the entries l.
LinesOf(l, k) ==
    (IF l[k].project_label # PreviousProjectLabel(l, k)
     THEN <<ProjectHeader(l[k])>> ELSE <<>>)
    \o (IF l[k].area_label # PreviousAreaLabel(l, k)
        THEN <<AreaHeader(l[k])>> ELSE <<>>)
    \o (IF l[k].category_label # PreviousCategoryLabel(l, k)
        THEN <<CategoryHeader(l[k])>> ELSE <<>>)
    \o <<ItemLine(l[k])>>

\* The lines shown for the entries l from the k-th on.
RECURSIVE LinesFrom(_, _)
LinesFrom(l, k) ==
    IF k > Len(l) THEN <<>> ELSE LinesOf(l, k) \o LinesFrom(l, k + 1)

\* The text of a sequence of lines, each ended by a newline.
RECURSIVE Text(_)
Text(lines) ==
    IF Len(lines) = 0 THEN <<>>
    ELSE Head(lines) \o <<"\n">> \o Text(Tail(lines))

(* C26: System::display walks the selected identifiers in index order and, *)
(* for each, shows a project header exactly when its project label differs *)
(* from the previous selected entry's, an area header exactly when its     *)
(* area label differs, a category header exactly when its category label   *)
(* differs, and then the short dotted form; area headers are indented by   *)
(* two spaces, category headers by four, item lines by six, and every line *)
(* ends with a newline.                                                    *)
C26_DisplayLayout ==
    op = "display" /\ ret.kind = "ok" => ret.val = Text(LinesFrom(Selected, 1))

\* Three entries have been shown, the second under the headers of the
\* first, the third with a category header and no area header of its own.
C26_Witness ==
    /\ op = "display"
    /\ ret.kind = "ok"
    /\ Len(Selected) = 3
    /\ Selected[2].area_label = Selected[1].area_label
    /\ Selected[2].category_label = Selected[1].category_label
    /\ Selected[3].area_label = Selected[2].area_label
    /\ Selected[3].category_label # Selected[2].category_label
    /\ Selected[3].project_label # Selected[2].project_label

-----------------------------------------------------------------------------
\* Auto-Add was called with a category and found no entry of that project
\* and category.
EmptyBucket ==
    /\ AutoAddCalled
    /\ is_some(parse_jd_input(arg[1]).category)
    /\ Bucket(old.id, parse_jd_input(arg[1])) = {}

(* C27: Auto-Add returns ok or an error for every index and every input;   *)
(* when a category is parsed and the index holds no entry with that        *)
(* project and category, it returns an error and leaves the index as it    *)
(* was, without aborting.                                                  *)
C27_AutoAddNeverAborts ==
    /\ AutoAddCalled => ret.kind \in {"ok", "err"}
    /\ EmptyBucket => ret.kind = "err" /\ id = old.id /\ path = old.path

\* Auto-Add aborts on an empty bucket only, and then the index is as it
\* was.
AutoAddAbortsOnEmptyBucketOnly ==
    AutoAddCalled =>
        /\ ret.kind = "panic" <=> EmptyBucket
        /\ ret.kind = "panic" => id = old.id /\ path = old.path

-----------------------------------------------------------------------------
\* Both productions succeed on a text.
BothProductionsSucceed(t) ==
    parse_with_projects(t).kind = "ok" /\ parse_without_projects(t).kind = "ok"

\* A number of the text has a '<' between or behind its digits.
HasBrokenNumber(t) ==
    \E k \in 1..Len(t) : \E j \in 2..Len(t[k]) :
        t[k][j] = "<" /\ IsDigit(t[k][j - 1])

(* C28: on every text at most one of the two productions succeeds, so the  *)
(* branch of System::parse that aborts when both succeeded is never taken  *)
(* and System::parse always returns an index or an error.                  *)
C28_ParseAlwaysReturns ==
    op = "parse" =>
        /\ ~BothProductionsSucceed(arg[1])
        /\ ret.kind \in {"ok", "err"}

\* No text makes both productions succeed; System::parse aborts only on a
\* text with a '<' in a number, inside match_project, match_area or
\* match_id.
ParseAbortsInNumbersOnly ==
    op = "parse" =>
        /\ ~BothProductionsSucceed(arg[1])
        /\ ret.kind = "panic" =>
              /\ HasBrokenNumber(arg[1])
              /\ \/ parse_with_projects(arg[1]).kind = "panic"
                 \/ parse_without_projects(arg[1]).kind = "panic"

-----------------------------------------------------------------------------
(* C29: every identifier of an index System::parse returns has the number  *)
(* of the category line that encloses its item line as its category, which *)
(* is therefore inside the enclosing area range.                           *)
C29_CategoryOfEnclosingLine ==
    op = "parse" /\ ret.kind = "ok" =>
        \A a \in AreaNodes(arg[1]) : \A c \in Elems(a.under) :
            \A i \in Elems(c.under) :
                /\ i.head.ac = c.head.number
                /\ a.head.first <= i.head.ac /\ i.head.ac <= a.head.second

\* Every item line of a parsed text is stored with its own two numbers and
\* the labels of the category line and the area line that enclose it.
StoredUnderEnclosingLabels ==
    op = "parse" /\ ret.kind = "ok" =>
        \A a \in AreaNodes(arg[1]) : \A c \in Elems(a.under) :
            \A i \in Elems(c.under) : \E k \in 1..Len(id) :
                /\ id[k].category = i.head.ac
                /\ id[k].id = i.head.id
                /\ id[k].project = i.head.project
                /\ id[k].category_label = c.head.label
                /\ id[k].area_label = a.head.label

-----------------------------------------------------------------------------
\* The lines of a text, without the newline that ends each.
RECURSIVE SplitLines(_, _)
SplitLines(text, line) ==
    IF Len(text) = 0 THEN (IF Len(line) = 0 THEN <<>> ELSE <<line>>)
    ELSE IF Head(text) = "\n" THEN <<line>> \o SplitLines(Tail(text), <<>>)
    ELSE SplitLines(Tail(text), Append(line, Head(text)))

\* The number of spaces a line begins with.
RECURSIVE IndentOf(_)
IndentOf(line) ==
    IF Len(line) > 0 /\ Head(line) = " " THEN 1 + IndentOf(Tail(line)) ELSE 0

\* The place of the k-th item line among the lines.
ItemLineAt(lines, k) ==
    CHOOSE j \in 1..Len(lines) :
        /\ IndentOf(lines[j]) = 6
        /\ Cardinality({h \in 1..j : IndentOf(lines[h]) = 6}) = k

\* The nearest line with indent n above the j-th line, an empty line when
\* there is none.
NearestAbove(lines, j, n) ==
    IF \E h \in 1..(j - 1) : IndentOf(lines[h]) = n
    THEN lines[Last({h \in 1..(j - 1) : IndentOf(lines[h]) = n})]
    ELSE <<>>

\* The k-th selected entry is shown under its own headers.
UnderOwnHeaders(lines, l, k) ==
    /\ NearestAbove(lines, ItemLineAt(lines, k), 4) = CategoryHeader(l[k])
    /\ NearestAbove(lines, ItemLineAt(lines, k), 2) = AreaHeader(l[k])
    /\ is_some(l[k].project)
          => NearestAbove(lines, ItemLineAt(lines, k), 0) = ProjectHeader(l[k])

(* C30: in every text System::display returns, also for an index in which  *)
(* distinct projects, areas or categories carry identical labels, the      *)
(* nearest category header above an item line shows the item's own         *)
(* category number, the nearest area header its own area range and, when   *)
(* the item has a project, the nearest project header its own project      *)
(* number.                                                                 *)
C30_ItemsUnderOwnHeaders ==
    op = "display" /\ ret.kind = "ok" =>
        \A k \in 1..Len(Selected) :
            UnderOwnHeaders(SplitLines(ret.val, <<>>), Selected, k)

\* Entries of distinct projects, areas and categories whose labels differ
\* are shown under their own headers.
DistinctLabelsUnderOwnHeaders ==
    (/\ op = "display"
     /\ ret.kind = "ok"
     /\ \A k \in 2..Len(Selected) :
          /\ Selected[k].category # Selected[k - 1].category
                => /\ Selected[k].category_label # Selected[k - 1].category_label
                   /\ Selected[k].area_label # Selected[k - 1].area_label
          /\ Selected[k].project # Selected[k - 1].project
                => Selected[k].project_label # Selected[k - 1].project_label)
        => \A k \in 1..Len(Selected) :
               UnderOwnHeaders(SplitLines(ret.val, <<>>), Selected, k)

=============================================================================
